---------------------------- MODULE Spec2Model ----------------------------
(***************************************************************************)
(* A model of the custom actions of the health chatbot (src/actions.py):   *)
(* the BMI form validators and ActionCalculateBMI, the symptom triage of   *)
(* ActionSymptomChecker, the question-answering path of                    *)
(* ActionAnswerHealthQuestion with the gateway search_health_info, and the *)
(* COVID statistics actions.                                               *)
(*                                                                         *)
(* Conventions.  A Python str is a TLA+ string (TLC treats it as a         *)
(* sequence of characters: Len, SubSeq and \o apply).  A Python number is  *)
(* an integer count of tenths (1.7 is 17, 170 is 1700, 300.1 is 3001), so  *)
(* every comparison against the code's thresholds is exact.                *)
(* A rendered message is a record naming the f-string it came from (kind)  *)
(* and the values substituted into it.                                     *)
(***************************************************************************)
EXTENDS Integers, Sequences, FiniteSets, TLC

VARIABLES
    slots,   \* tracker: session -> slot name -> value (the dialogue engine's store)
    env,     \* the turn: the latest message's text, the value extracted for a
             \* form slot, and what the endpoints answer
    out      \* what the last action run produced: messages, returned events, raise

vars == <<slots, env, out>>

---------------------------------------------------------------------------
(* Python str methods *)

\* the str.isspace characters that occur in the inputs
Whitespace == {" ", "\t", "\n"}

CharAt(s, i) == SubSeq(s, i, i)

\* Python: t in s
Contains(s, t) ==
    \E i \in 1..(Len(s) - Len(t) + 1) : SubSeq(s, i, i + Len(t) - 1) = t

\* Python: any(t in s for t in ts)
ContainsAny(s, ts) == \E i \in 1..Len(ts) : Contains(s, ts[i])

UpperToLower ==
    [c \in {"A","B","C","D","E","F","G","H","I","J","K","L","M",
            "N","O","P","Q","R","S","T","U","V","W","X","Y","Z"} |->
       CASE c = "A" -> "a" [] c = "B" -> "b" [] c = "C" -> "c" [] c = "D" -> "d"
         [] c = "E" -> "e" [] c = "F" -> "f" [] c = "G" -> "g" [] c = "H" -> "h"
         [] c = "I" -> "i" [] c = "J" -> "j" [] c = "K" -> "k" [] c = "L" -> "l"
         [] c = "M" -> "m" [] c = "N" -> "n" [] c = "O" -> "o" [] c = "P" -> "p"
         [] c = "Q" -> "q" [] c = "R" -> "r" [] c = "S" -> "s" [] c = "T" -> "t"
         [] c = "U" -> "u" [] c = "V" -> "v" [] c = "W" -> "w" [] c = "X" -> "x"
         [] c = "Y" -> "y" [] c = "Z" -> "z"]

\* Python: s.lower()
RECURSIVE Lower(_)
Lower(s) ==
    IF s = "" THEN ""
    ELSE LET c == CharAt(s, 1)
         IN  (IF c \in DOMAIN UpperToLower THEN UpperToLower[c] ELSE c)
               \o Lower(SubSeq(s, 2, Len(s)))

\* Python: s.replace(old, new), old non-empty: leftmost non-overlapping occurrences
RECURSIVE Replace(_, _, _)
Replace(s, old, new) ==
    IF Len(s) < Len(old) THEN s
    ELSE IF SubSeq(s, 1, Len(old)) = old
         THEN new \o Replace(SubSeq(s, Len(old) + 1, Len(s)), old, new)
         ELSE CharAt(s, 1) \o Replace(SubSeq(s, 2, Len(s)), old, new)

RECURSIVE LStrip(_)
LStrip(s) ==
    IF s # "" /\ CharAt(s, 1) \in Whitespace THEN LStrip(SubSeq(s, 2, Len(s))) ELSE s

RECURSIVE RStrip(_)
RStrip(s) ==
    IF s # "" /\ CharAt(s, Len(s)) \in Whitespace
    THEN RStrip(SubSeq(s, 1, Len(s) - 1)) ELSE s

\* Python: s.strip()
Strip(s) == RStrip(LStrip(s))

StartsWith(s, p) == Len(s) >= Len(p) /\ SubSeq(s, 1, Len(p)) = p

EndsWith(s, p) == Len(s) >= Len(p) /\ SubSeq(s, Len(s) - Len(p) + 1, Len(s)) = p

\* Python: re.sub(r'^(a1|a2|..)\s+', '', s): the first alternative, in the
\* order written, that s starts with and that whitespace follows is removed
\* together with all the whitespace after it
RemoveLeading(s, alts) ==
    LET hit == {i \in 1..Len(alts) :
                  /\ StartsWith(s, alts[i])
                  /\ Len(s) > Len(alts[i])
                  /\ CharAt(s, Len(alts[i]) + 1) \in Whitespace}
    IN  IF hit = {} THEN s
        ELSE LET i == CHOOSE j \in hit : \A k \in hit : j <= k
             IN  LStrip(SubSeq(s, Len(alts[i]) + 1, Len(s)))

\* Python: re.sub(r'\s+(a1|a2|..)$', '', s): $ is the end of s, or the place
\* before a newline that ends s; the alternative there is removed together with
\* the whole run of whitespace before it, which must not be empty
RemoveTrailing(s, alts) ==
    LET nl   == EndsWith(s, "\n")
        core == IF nl THEN SubSeq(s, 1, Len(s) - 1) ELSE s
        hit  == {i \in 1..Len(alts) :
                   /\ EndsWith(core, alts[i])
                   /\ Len(core) > Len(alts[i])
                   /\ CharAt(core, Len(core) - Len(alts[i])) \in Whitespace}
    IN  IF hit = {} THEN s
        ELSE LET i == CHOOSE j \in hit : \A k \in hit : j <= k
             IN  RStrip(SubSeq(core, 1, Len(core) - Len(alts[i])))
                   \o (IF nl THEN "\n" ELSE "")

\* Python: ' '.join(s.split()): runs of whitespace become one space, none at the ends
RECURSIVE JoinWords(_)
JoinWords(s) ==
    LET t == LStrip(s)
    IN  IF t = "" THEN ""
        ELSE LET ws  == {i \in 1..Len(t) : CharAt(t, i) \in Whitespace}
                 cut == IF ws = {} THEN Len(t) + 1
                        ELSE CHOOSE i \in ws : \A j \in ws : i <= j
                 rest == JoinWords(SubSeq(t, cut, Len(t)))
             IN  SubSeq(t, 1, cut - 1) \o (IF rest = "" THEN "" ELSE " " \o rest)

---------------------------------------------------------------------------
(* Python values: None, a number (in tenths), a str, an int too large for a *)
(* double, any other object.  A float is the double nearest to n tenths,    *)
(* moved u units in its last place: u is 0 except for a computed float      *)

None   == [k |-> "none", n |-> 0, s |-> "", u |-> 0]
Num(n) == [k |-> "num",  n |-> n, s |-> "", u |-> 0]
Str(s) == [k |-> "str",  n |-> 0, s |-> s, u |-> 0]
Obj    == [k |-> "list", n |-> 0, s |-> "", u |-> 0]     \* a list of one element: float() raises TypeError
BigInt == [k |-> "bigint", n |-> 0, s |-> "", u |-> 0]   \* the int 10 ** 400, which no double holds

JsonInt(n) == [k |-> "int", n |-> n, s |-> "", u |-> 0]   \* a JSON integer, as is

\* Python truthiness, as all([...]) and `if x` apply it
Truthy(v) ==
    CASE v.k = "none" -> FALSE
      [] v.k = "num"  -> v.n # 0
      [] v.k = "int"  -> v.n # 0
      [] v.k = "str"  -> v.s # ""
      [] OTHER        -> TRUE                    \* a non-empty list

DigitVal ==
    [c \in {"0","1","2","3","4","5","6","7","8","9"} |->
       CASE c = "0" -> 0 [] c = "1" -> 1 [] c = "2" -> 2 [] c = "3" -> 3
         [] c = "4" -> 4 [] c = "5" -> 5 [] c = "6" -> 6 [] c = "7" -> 7
         [] c = "8" -> 8 [] c = "9" -> 9]

AllDigits(s) == \A i \in 1..Len(s) : CharAt(s, i) \in DOMAIN DigitVal

RECURSIVE DigitsVal(_)
DigitsVal(s) ==
    IF s = "" THEN 0
    ELSE DigitsVal(SubSeq(s, 1, Len(s) - 1)) * 10 + DigitVal[CharAt(s, Len(s))]

Failed == [ok |-> FALSE, n |-> 0]

\* float() of an unsigned decimal literal with at most one fraction digit
ParseUnsigned(t) ==
    LET dots == {i \in 1..Len(t) : CharAt(t, i) = "."}
    IN  IF dots = {}
        THEN IF t # "" /\ AllDigits(t)
             THEN [ok |-> TRUE, n |-> DigitsVal(t) * 10] ELSE Failed
        ELSE IF Cardinality(dots) = 1
        THEN LET d  == CHOOSE i \in dots : TRUE
                 ip == SubSeq(t, 1, d - 1)
                 fp == SubSeq(t, d + 1, Len(t))
             IN  IF AllDigits(ip) /\ AllDigits(fp) /\ Len(ip) + Len(fp) > 0
                    /\ Len(fp) <= 1
                 THEN [ok |-> TRUE, n |-> DigitsVal(ip) * 10 + DigitsVal(fp)]
                 ELSE Failed
        ELSE Failed

\* Python: float(s) for a str: surrounding whitespace and one sign are allowed;
\* ok = FALSE is ValueError.  (Exponents, inf, nan and underscores are outside
\* the input alphabet used here.)
ParseFloat(s) ==
    LET t == Strip(s)
    IN  IF t # "" /\ CharAt(t, 1) \in {"+", "-"}
        THEN LET r == ParseUnsigned(SubSeq(t, 2, Len(t)))
             IN  IF r.ok /\ CharAt(t, 1) = "-" THEN [ok |-> TRUE, n |-> 0 - r.n]
                 ELSE r
        ELSE ParseUnsigned(t)

\* Python: float(v) of an int beyond the range of a double raises OverflowError,
\* which is neither a ValueError nor a TypeError
FloatOverflows(v) == v.k = "bigint"

\* Python: float(v): a number converts, a str is parsed (ValueError on failure),
\* None and other objects raise TypeError; both errors are ok = FALSE
Float(v) ==
    CASE v.k = "num" -> [ok |-> TRUE, n |-> v.n]
      [] v.k = "str" -> ParseFloat(v.s)
      [] OTHER       -> Failed

\* Python: int(v): a float is truncated towards zero; a str is stripped and
\* must be an optional sign and digits (ValueError otherwise); an int is
\* returned as it is, big telling that it is the int no double holds; None and
\* a list raise TypeError; both errors are ok = FALSE
PyInt(v) ==
    CASE v.k = "num" ->
           LET a == IF v.n >= 0 THEN v.n ELSE 0 - v.n
               \* a whole number of units less a fraction of the last place
               t == IF a % 10 = 0 /\ a > 0 /\ ((v.n > 0 /\ v.u < 0) \/ (v.n < 0 /\ v.u > 0))
                    THEN a \div 10 - 1 ELSE a \div 10
           IN  [ok |-> TRUE, n |-> IF v.n >= 0 THEN t ELSE 0 - t, big |-> FALSE]
      [] v.k = "str" ->
           LET t    == Strip(v.s)
               sign == t # "" /\ CharAt(t, 1) \in {"+", "-"}
               d    == IF sign THEN SubSeq(t, 2, Len(t)) ELSE t
           IN  IF d # "" /\ AllDigits(d)
               THEN [ok |-> TRUE,
                     n |-> IF sign /\ CharAt(t, 1) = "-" THEN 0 - DigitsVal(d)
                           ELSE DigitsVal(d),
                     big |-> FALSE]
               ELSE [ok |-> FALSE, n |-> 0, big |-> FALSE]
      [] v.k = "int"    -> [ok |-> TRUE, n |-> v.n, big |-> FALSE]
      [] v.k = "bigint" -> [ok |-> TRUE, n |-> 0, big |-> TRUE]
      [] OTHER -> [ok |-> FALSE, n |-> 0, big |-> FALSE]

---------------------------------------------------------------------------
(* Binary floating point.  A Python float is an IEEE-754 double: 53         *)
(* significant bits, each operation rounded to the nearest double, ties to  *)
(* the even mantissa.  Mantissas are natural numbers written in base 2^15,  *)
(* lowest digit first; a float is m * 2^e (the values used are positive and *)
(* far from the exponent limits).                                           *)

Limb == 2 ^ 15

\* a float of n tenths moved u units in the last place
Dbl(n, u) == [k |-> "num", n |-> n, s |-> "", u |-> u]

\* the position of the highest bit of the digit n > 0
Log2Floor(n) == CHOOSE k \in 0..14 : 2 ^ k <= n /\ n < 2 ^ (k + 1)

RECURSIVE BigOfInt(_)
BigOfInt(n) == IF n = 0 THEN <<>> ELSE <<n % Limb>> \o BigOfInt(n \div Limb)

\* leading zero digits removed
RECURSIVE BigNorm(_)
BigNorm(a) ==
    IF a # <<>> /\ a[Len(a)] = 0 THEN BigNorm(SubSeq(a, 1, Len(a) - 1)) ELSE a

\* a * c + carry, for c, carry < Limb
RECURSIVE BigScale(_, _, _)
BigScale(a, c, carry) ==
    IF a = <<>> THEN BigOfInt(carry)
    ELSE LET t == a[1] * c + carry
         IN  <<t % Limb>> \o BigScale(Tail(a), c, t \div Limb)

\* a - b - borrow, for a >= b + borrow
RECURSIVE BigSub(_, _, _)
BigSub(a, b, borrow) ==
    IF a = <<>> THEN <<>>
    ELSE LET t == a[1] - (IF b = <<>> THEN 0 ELSE b[1]) - borrow
         IN  <<(t + Limb) % Limb>>
             \o BigSub(Tail(a), IF b = <<>> THEN <<>> ELSE Tail(b),
                       IF t < 0 THEN 1 ELSE 0)

RECURSIVE BigMul(_, _)
BigMul(a, b) ==
    LET RECURSIVE Add(_, _, _)
        Add(x, y, carry) ==
            IF x = <<>> THEN BigScale(y, 1, carry)
            ELSE IF y = <<>> THEN BigScale(x, 1, carry)
            ELSE LET t == x[1] + y[1] + carry
                 IN  <<t % Limb>> \o Add(Tail(x), Tail(y), t \div Limb)
    IN  IF b = <<>> THEN <<>>
        ELSE Add(BigScale(a, b[1], 0), <<0>> \o BigMul(a, Tail(b)), 0)

\* -1, 0, 1 as a is below, equal to, above b
BigCmp(a, b) ==
    LET x   == BigNorm(a)
        y   == BigNorm(b)
        d   == {i \in 1..Len(x) : x[i] # y[i]}
        top == CHOOSE i \in d : \A j \in d : j <= i
    IN  IF Len(x) # Len(y) THEN (IF Len(x) < Len(y) THEN -1 ELSE 1)
        ELSE IF d = {} THEN 0
        ELSE IF x[top] < y[top] THEN -1 ELSE 1

\* a * 2^k
BigShl(a, k) == [i \in 1..(k \div 15) |-> 0] \o BigScale(a, 2 ^ (k % 15), 0)

\* the number of bits of a > 0 without leading zero digits
BigBits(a) == 15 * (Len(a) - 1) + Log2Floor(a[Len(a)]) + 1

\* 2 * floor(n0 / d0), plus 1 when the division leaves a remainder, for
\* d0 > 0: long division, the digits taken from the highest down, each
\* estimated from the leading digits of the remainder and lowered at most twice
BigDiv(n0, d0) ==
    LET \* the divisor is scaled to a leading digit of at least Limb / 2
        s   == 14 - Log2Floor(BigNorm(d0)[Len(BigNorm(d0))])
        d   == BigNorm(BigScale(BigNorm(d0), 2 ^ s, 0))
        n   == BigNorm(BigScale(n0, 2 ^ s, 0))
        len == Len(d)
        \* the digits of n above the first len - 1 each give one of the quotient
        top == IF Len(n) >= len THEN Len(n) - len + 1 ELSE 0
        Est(r) ==
            LET e0 == ((IF Len(r) > len THEN r[len + 1] * Limb ELSE 0)
                       + (IF Len(r) >= len THEN r[len] ELSE 0)) \div d[len]
            IN  IF e0 > Limb - 1 THEN Limb - 1 ELSE e0
        Low(r, q) == IF q > 0 /\ BigCmp(BigScale(d, q, 0), r) > 0 THEN q - 1 ELSE q
        Rem(r, q) == [q |-> q, r |-> BigNorm(BigSub(r, BigScale(d, q, 0), 0))]
        \* the digit q.q of the quotient below which r leaves q.r
        Digit(r)  == Rem(r, Low(r, Low(r, Est(r))))
        \* a: the digit above i and the remainder under it; q: the digits above a
        RECURSIVE Go(_, _, _)
        Go(i, a, q) ==
            IF i < 1
            THEN BigNorm(BigScale(<<a.q>> \o q, 2, IF a.r = <<>> THEN 0 ELSE 1))
            ELSE IF a.r = <<>> /\ n[i] = 0
                 THEN Go(i - 1, [q |-> 0, r |-> <<>>], <<a.q>> \o q)
            ELSE Go(i - 1, Digit(BigNorm(<<n[i]>> \o a.r)), <<a.q>> \o q)
    IN  Go(top, [q |-> 0, r |-> BigNorm(SubSeq(n, top + 1, Len(n)))], <<>>)

\* the double nearest to n * 2^e, n without leading zero digits: the bits
\* below the 53rd are dropped and the mantissa goes up when they are more than
\* half a unit, or half and it is odd
FlRound(n, e) ==
    LET j    == BigBits(n) - 53                  \* the number of dropped bits
        lo   == (j - 1) \div 15 + 1              \* the digit and the place of
        bit  == 2 ^ ((j - 1) % 15)               \* the highest of them
        half == (n[lo] \div bit) % 2 = 1
        more == n[lo] % bit # 0 \/ \E i \in 1..(lo - 1) : n[i] # 0
        s    == j % 15
        k    == j \div 15
        m0   == BigNorm([i \in 1..(Len(n) - k) |->
                           (n[i + k] \div 2 ^ s)
                           + (IF i + k < Len(n) THEN (n[i + k + 1] % 2 ^ s) * 2 ^ (15 - s)
                              ELSE 0)])
    IN  [e |-> e + (IF j <= 0 THEN 0 ELSE j),
         m |-> IF j <= 0 THEN n
               ELSE IF half /\ (more \/ m0[1] % 2 = 1) THEN BigScale(m0, 1, 1)
               ELSE m0]

\* a * b and a / b, rounded
FlMul(a, b) == FlRound(BigNorm(BigMul(a.m, b.m)), a.e + b.e)

\* k: the quotient of a.m * 2^k by b.m has 55 or 56 bits, and what the
\* division leaves is one more bit under them
FlDiv(a, b) ==
    LET k == 55 - BigBits(a.m) + BigBits(b.m)
    IN  FlRound(BigDiv(BigShl(a.m, k), b.m), a.e - b.e - k - 1)

\* an int is a float as it is
FlInt(n) == [e |-> 0, m |-> BigOfInt(n)]

\* the float of the value [n, u], n > 0: the double nearest to n / 10, then u
\* units in the last place away
FlTenths(n, u) ==
    LET Moved(a) == [e |-> a.e,
                     m |-> IF u > 0 THEN BigScale(a.m, 1, u)
                           ELSE IF u < 0 THEN BigNorm(BigSub(a.m, <<0 - u>>, 0))
                           ELSE a.m]
    IN  Moved(FlDiv(FlInt(n), FlInt(10)))

---------------------------------------------------------------------------
(* Messages and action results *)

Msg(kind) == [kind |-> kind, a |-> <<>>, b |-> <<>>, n |-> <<>>]

SlotSet(name, v) == [slot |-> name, value |-> v]

\* what a validator returns: the value for its slot and the messages it uttered
Validated(v, msgs) == [value |-> v, messages |-> msgs, raised |-> FALSE]

\* a validator left by an exception its except clause does not name
Uncaught == [value |-> None, messages |-> <<>>, raised |-> TRUE]

---------------------------------------------------------------------------
(* ValidateBMIForm *)

\* variant: the upper bound of the weight range excluded
validate_weight_UpperExcluded(slot_value) ==
    LET v == IF slot_value.k = "str"
             THEN Str(Strip(Replace(Replace(Replace(Lower(slot_value.s),
                                    "kg", ""), "kgs", ""), "kilos", "")))
             ELSE slot_value
        f == Float(v)
    IN  IF FloatOverflows(v) THEN Uncaught
        ELSE IF ~f.ok
        THEN Validated(None, <<Msg("weight_not_a_number")>>)
        ELSE IF 200 <= f.n /\ f.n < 3000
        THEN Validated(Num(f.n), <<>>)
        ELSE Validated(None, <<Msg("weight_out_of_range")>>)

\* validate_weight: unit tokens removed in the order kg, kgs, kilos
validate_weight(slot_value) ==
    LET v == IF slot_value.k = "str"
             THEN Str(Strip(Replace(Replace(Replace(Lower(slot_value.s),
                                    "kg", ""), "kgs", ""), "kilos", "")))
             ELSE slot_value
        f == Float(v)
    IN  IF FloatOverflows(v) THEN Uncaught
        ELSE IF ~f.ok
        THEN Validated(None, <<Msg("weight_not_a_number")>>)
        ELSE IF 200 <= f.n /\ f.n <= 3000                 \* 20 <= weight <= 300
        THEN Validated(Num(f.n), <<>>)
        ELSE Validated(None, <<Msg("weight_out_of_range")>>)

\* the str branch of validate_height: units removed, then the feet test
HeightText(s) ==
    Strip(Replace(Replace(Replace(Lower(s), "cm", ""), "centimeters", ""),
                  "centimeter", ""))

\* variant: the range check alone, no reading of small values as metres
HeightOfNumber_NoMetres(h) ==
    IF 500 <= h /\ h <= 2500
    THEN Validated(Num(h), <<>>)
    ELSE Validated(None, <<Msg("height_out_of_range")>>)

\* the numeric part of validate_height: a value in [1.0, 2.5] is metres, and
\* height * 100 is the product of two doubles, rounded
HeightOfNumber(h) ==
    LET Ranged(height, conv) ==
            IF /\ 500 <= height.n /\ (height.n = 500 => height.u >= 0)    \* 50 <= height
               /\ height.n <= 2500 /\ (height.n = 2500 => height.u <= 0)  \* height <= 250
            THEN Validated(height, conv)
            ELSE Validated(None, conv \o <<Msg("height_out_of_range")>>)
        Converted(height) ==
            Ranged(height, <<[Msg("height_converted") EXCEPT !.n = <<height.n, height.u>>]>>)
        \* by how many units in the last place the mantissa x lies above y
        Apart(x, y) == IF x = y THEN 0
                       ELSE IF BigCmp(x, y) > 0 THEN BigNorm(BigSub(x, y, 0))[1]
                       ELSE 0 - BigNorm(BigSub(y, x, 0))[1]
    IN  IF 10 <= h /\ h <= 25                             \* 1.0 <= height <= 2.5
        THEN Converted(Dbl(h * 100,
                           Apart(FlMul(FlTenths(h, 0), FlInt(100)).m,
                                 FlTenths(h * 100, 0).m)))
        ELSE Ranged(Num(h), <<>>)

validate_height(slot_value) ==
    LET v == IF slot_value.k = "str" THEN Str(HeightText(slot_value.s))
             ELSE slot_value
        MentionsFeet(s) == Contains(s, "feet") \/ Contains(s, "foot") \/ Contains(s, "ft")
    IN  IF v.k = "str" /\ MentionsFeet(v.s)
        THEN Validated(None, <<Msg("height_in_cm_please")>>)
        ELSE LET f == Float(v)
             IN  IF FloatOverflows(v) THEN Uncaught
                 ELSE IF ~f.ok
                 THEN Validated(None, <<Msg("height_not_a_number")>>)
                 ELSE HeightOfNumber(f.n)

validate_age(slot_value) ==
    LET v == IF slot_value.k = "str"
             THEN Str(Strip(Replace(Replace(Replace(Replace(Lower(slot_value.s),
                                    "years", ""), "year", ""), "yrs", ""), "yr", "")))
             ELSE slot_value
        f == Float(v)
    IN  IF FloatOverflows(v) THEN Uncaught
        ELSE IF ~f.ok
        THEN Validated(None, <<Msg("age_not_a_number")>>)
        ELSE IF 20 <= f.n /\ f.n <= 1200                  \* 2 <= age <= 120
        THEN Validated(Num(f.n), <<>>)
        ELSE Validated(None, <<Msg("age_out_of_range")>>)

\* the three synonym lists of validate_gender, in the order it tests them
MaleWords   == <<"male", "man", "boy", "m">>
FemaleWords == <<"female", "woman", "girl", "f">>
OtherWords  == <<"other", "transgender", "trans">>

\* the if/elif chain of validate_gender over the lowered, stripped text
GenderOfText(gender) ==
    IF ContainsAny(gender, MaleWords) THEN "male"
    ELSE IF ContainsAny(gender, FemaleWords) THEN "female"
    ELSE IF ContainsAny(gender, OtherWords) THEN "other"
    ELSE ""

validate_gender(slot_value) ==
    LET g == IF slot_value.k = "str" THEN GenderOfText(Strip(Lower(slot_value.s)))
             ELSE ""
    IN  IF g # "" THEN Validated(Str(g), <<>>)
        ELSE Validated(None, <<Msg("gender_please_specify")>>)

---------------------------------------------------------------------------
(* ActionCalculateBMI *)

LowerToUpper ==
    [c \in {UpperToLower[u] : u \in DOMAIN UpperToLower} |->
       CHOOSE u \in DOMAIN UpperToLower : UpperToLower[u] = c]

\* Python: s.title(): a letter after a non-letter is upper-cased, others lowered
RECURSIVE TitleFrom(_, _)
TitleFrom(s, afterLetter) ==
    IF s = "" THEN ""
    ELSE LET c  == CharAt(s, 1)
             up == c \in DOMAIN UpperToLower
             lo == c \in DOMAIN LowerToUpper
             t  == IF up /\ afterLetter THEN UpperToLower[c]
                   ELSE IF lo /\ ~afterLetter THEN LowerToUpper[c]
                   ELSE c
         IN  t \o TitleFrom(SubSeq(s, 2, Len(s)), up \/ lo)

Title(s) == TitleFrom(s, FALSE)

\* Python: round(a / b) for a >= 0, b > 0: to nearest, ties to even
RoundHalfEven(a, b) ==
    LET q == a \div b
        r == a % b
    IN  IF 2 * r < b THEN q
        ELSE IF 2 * r > b THEN q + 1
        ELSE IF q % 2 = 0 THEN q ELSE q + 1

\* bmi = weight / (height_m ** 2) with height_m = height / 100, kept as the
\* exact quotient num / den of the nominal tenths together with the two floats
\* it is computed from
Bmi(weight, height) ==
    [num |-> weight.n * 100000, den |-> height.n * height.n,
     weight |-> weight, height |-> height]

\* the sign of the double bmi minus num / den: each of height / 100,
\* height_m ** 2 and weight / (..) rounds to the nearest double
BmiErr(bmi) ==
    LET Abs(i)   == IF i < 0 THEN 0 - i ELSE i
        Mag(v)   == FlTenths(Abs(v.n), IF v.n < 0 THEN 0 - v.u ELSE v.u)
        Sq(height_m) == FlMul(height_m, height_m)
        \* b against |num| / den
        Cmp(b)   == IF b.e >= 0
                    THEN BigCmp(BigShl(BigMul(b.m, BigOfInt(bmi.den)), b.e),
                                BigOfInt(Abs(bmi.num)))
                    ELSE BigCmp(BigMul(b.m, BigOfInt(bmi.den)),
                                BigShl(BigOfInt(Abs(bmi.num)), 0 - b.e))
    IN  IF bmi.num = 0 THEN 0
        ELSE (IF bmi.num < 0 THEN -1 ELSE 1)
             * Cmp(FlDiv(Mag(bmi.weight), Sq(FlDiv(Mag(bmi.height), FlInt(100)))))

\* bmi < t, the threshold given doubled (37 is 18.5).  The double is within
\* a few units in the last place of num / den, so it is on the same side of t
\* as num / den unless num / den is t itself
BmiLess(bmi, twice) ==
    \/ 2 * bmi.num < twice * bmi.den
    \/ 2 * bmi.num = twice * bmi.den /\ BmiErr(bmi) < 0

\* variant: the second decimal cut off
BmiRounded_Truncated(bmi) ==
    10 * (bmi.num \div bmi.den) + ((10 * (bmi.num % bmi.den)) \div bmi.den)

\* round(bmi, 1), in tenths: to nearest; at a decimal tie the double lies on
\* one side of it (err), or is the tie itself and goes to the even digit
BmiRounded(bmi) ==
    LET a == 10 * (bmi.num % bmi.den)
        q == 10 * (bmi.num \div bmi.den) + (a \div bmi.den)
        r == a % bmi.den
        Tie(err) == IF err < 0 THEN q
                    ELSE IF err > 0 THEN q + 1
                    ELSE IF q % 2 = 0 THEN q ELSE q + 1
    IN  IF 2 * r < bmi.den THEN q
        ELSE IF 2 * r > bmi.den THEN q + 1
        ELSE Tie(BmiErr(bmi))

Tier(category, emoji, risk) == [category |-> category, emoji |-> emoji, risk |-> risk]

\* variant: every tier's upper bound included (<= instead of <)
_get_bmi_category_BoundIncluded(bmi, age) ==
    LET AtMost(twice) == \/ 2 * bmi.num < twice * bmi.den
                         \/ 2 * bmi.num = twice * bmi.den /\ BmiErr(bmi) <= 0
    IN  IF age.k = "num" /\ age.n < 180
        THEN IF AtMost(32)
             THEN Tier("Severely Underweight", "red", "High - Malnutrition Risk")
             ELSE IF AtMost(37)
             THEN Tier("Underweight", "yellow", "Moderate - Nutritional Deficiency")
             ELSE IF AtMost(50)
             THEN Tier("Normal (Healthy)", "green", "Low - Good Health")
             ELSE IF AtMost(60)
             THEN Tier("Overweight", "yellow", "Moderate - Health Issues Possible")
             ELSE Tier("Obese", "red", "High - Serious Health Risks")
        ELSE IF AtMost(32)
             THEN Tier("Severely Underweight", "red", "High - Severe Malnutrition")
             ELSE IF AtMost(37)
             THEN Tier("Underweight", "yellow", "Moderate - Nutritional Deficiency")
             ELSE IF AtMost(50)
             THEN Tier("Normal (Healthy Weight)", "green", "Low - Optimal Health")
             ELSE IF AtMost(60)
             THEN Tier("Overweight (Pre-Obese)", "yellow", "Moderate - Increased Risk")
             ELSE IF AtMost(70)
             THEN Tier("Obese Class I", "orange", "High - Significant Risk")
             ELSE IF AtMost(80)
             THEN Tier("Obese Class II", "red", "Very High - Severe Risk")
             ELSE Tier("Obese Class III (Morbidly Obese)", "red",
                       "Extremely High - Critical")

\* age is a float, or an int no double holds, which is not below 18
_get_bmi_category(bmi, age) ==
    IF age.k = "num" /\ age.n < 180                          \* age < 18
    THEN IF BmiLess(bmi, 32)
         THEN Tier("Severely Underweight", "red", "High - Malnutrition Risk")
         ELSE IF BmiLess(bmi, 37)
         THEN Tier("Underweight", "yellow", "Moderate - Nutritional Deficiency")
         ELSE IF BmiLess(bmi, 50)
         THEN Tier("Normal (Healthy)", "green", "Low - Good Health")
         ELSE IF BmiLess(bmi, 60)
         THEN Tier("Overweight", "yellow", "Moderate - Health Issues Possible")
         ELSE Tier("Obese", "red", "High - Serious Health Risks")
    ELSE IF BmiLess(bmi, 32)
         THEN Tier("Severely Underweight", "red", "High - Severe Malnutrition")
         ELSE IF BmiLess(bmi, 37)
         THEN Tier("Underweight", "yellow", "Moderate - Nutritional Deficiency")
         ELSE IF BmiLess(bmi, 50)
         THEN Tier("Normal (Healthy Weight)", "green", "Low - Optimal Health")
         ELSE IF BmiLess(bmi, 60)
         THEN Tier("Overweight (Pre-Obese)", "yellow", "Moderate - Increased Risk")
         ELSE IF BmiLess(bmi, 70)
         THEN Tier("Obese Class I", "orange", "High - Significant Risk")
         ELSE IF BmiLess(bmi, 80)
         THEN Tier("Obese Class II", "red", "Very High - Severe Risk")
         ELSE Tier("Obese Class III (Morbidly Obese)", "red",
                   "Extremely High - Critical")

\* (round(18.5 * height_m ** 2, 1), round(24.9 * height_m ** 2, 1)), in tenths
_calculate_ideal_weight(height_m) ==
    [min |-> RoundHalfEven(185 * height_m * height_m, 1000000),
     max |-> RoundHalfEven(249 * height_m * height_m, 1000000)]

\* the branch of _get_recommendations and the target it displays, in tenths
_get_recommendations(bmi, age, gender, weight, height_m) ==
    IF BmiLess(bmi, 37)
    THEN [goal |-> "gain", target |-> _calculate_ideal_weight(height_m).min - weight.n]
    ELSE IF BmiLess(bmi, 50)
    THEN [goal |-> "healthy", target |-> 0]
    ELSE [goal |-> "lose", target |-> weight.n - _calculate_ideal_weight(height_m).max]

BMISlots == <<"weight", "height", "age", "gender">>

\* the four SlotSet(.., None) every return statement of run lists
ClearBMI == [i \in 1..Len(BMISlots) |-> SlotSet(BMISlots[i], None)]

\* whether lines 1852-1885 raise: arithmetic on a non-number or on an int no
\* double holds (weight and height are divided; age is compared with 18 and
\* passed to int(), which such an int survives), .title() of a non-str
BMIRaises(weight, height, age, gender) ==
    \/ height.k # "num"
    \/ weight.k # "num"
    \/ age.k \notin {"num", "bigint"}
    \/ gender.k # "str"

\* the message run renders from the slot values: n lists int(age), weight,
\* height, height_m, the rounded bmi, the ideal range, the target and the
\* height's offset in units of the last place; b holds an age printed as the
\* int it is
BMIResult(weight, height, age, gender) ==
    LET height_m == height.n              \* height / 100: metres, in millimetres
        bmi      == Bmi(weight, height)
        ideal    == _calculate_ideal_weight(height_m)
        Response(tier, rec) ==
            [Msg("bmi_result") EXCEPT
               !.a = <<Title(gender.s), tier.category, tier.emoji, tier.risk, rec.goal>>,
               !.b = IF age.k = "bigint" THEN <<age>> ELSE <<>>,
               !.n = <<IF age.k = "bigint" THEN 0 ELSE PyInt(age).n, weight.n, height.n,
                       height_m, BmiRounded(bmi), ideal.min, ideal.max, rec.target,
                       height.u>>]
    IN  Response(_get_bmi_category(bmi, age),
                 _get_recommendations(bmi, age, gender.s, weight, height_m))

\* variant: the except branch returns no events
CalculateBMIRun_ExceptKeepsSlots(sl) ==
    LET weight == sl["weight"]
        height == sl["height"]
        age    == sl["age"]
        gender == sl["gender"]
    IN  IF ~(Truthy(weight) /\ Truthy(height) /\ Truthy(age) /\ Truthy(gender))
        THEN [messages |-> <<Msg("bmi_missing")>>, events |-> ClearBMI,
              path |-> "missing"]
        ELSE IF BMIRaises(weight, height, age, gender)
        THEN [messages |-> <<Msg("bmi_unable")>>, events |-> <<>>,
              path |-> "except"]
        ELSE [messages |-> <<BMIResult(weight, height, age, gender)>>,
              events |-> ClearBMI, path |-> "computed"]

\* ActionCalculateBMI.run over the slot values the tracker holds
CalculateBMIRun(sl) ==
    LET weight == sl["weight"]
        height == sl["height"]
        age    == sl["age"]
        gender == sl["gender"]
    IN  IF ~(Truthy(weight) /\ Truthy(height) /\ Truthy(age) /\ Truthy(gender))
        THEN [messages |-> <<Msg("bmi_missing")>>, events |-> ClearBMI,
              path |-> "missing"]
        ELSE IF BMIRaises(weight, height, age, gender)
        THEN [messages |-> <<Msg("bmi_unable")>>, events |-> ClearBMI,
              path |-> "except"]
        ELSE [messages |-> <<BMIResult(weight, height, age, gender)>>,
              events |-> ClearBMI, path |-> "computed"]

---------------------------------------------------------------------------
(* ActionSymptomChecker: extraction and triage *)

\* symptom_keywords, in the order the dict is written
SymptomKeywords ==
    << [symptom |-> "fever",          keywords |-> <<"fever", "temperature", "feverish">>],
       [symptom |-> "cough",          keywords |-> <<"cough", "coughing">>],
       [symptom |-> "headache",       keywords |-> <<"headache", "head pain", "migraine">>],
       [symptom |-> "body ache",      keywords |-> <<"body ache", "body pain", "muscle pain">>],
       [symptom |-> "fatigue",        keywords |-> <<"tired", "fatigue", "weakness", "weak">>],
       [symptom |-> "sore throat",    keywords |-> <<"sore throat", "throat pain">>],
       [symptom |-> "nausea",         keywords |-> <<"nausea", "vomiting">>],
       [symptom |-> "breathlessness", keywords |-> <<"breathless", "breathing problem",
                                                     "shortness of breath">>],
       [symptom |-> "chest pain",     keywords |-> <<"chest pain">>],
       [symptom |-> "stomach pain",   keywords |-> <<"stomach pain", "stomach ache",
                                                     "abdominal pain">>],
       [symptom |-> "diarrhea",       keywords |-> <<"diarrhea", "loose motion">>],
       [symptom |-> "rash",           keywords |-> <<"rash", "skin rash">>],
       [symptom |-> "leg pain",       keywords |-> <<"leg pain", "leg hurt">>],
       [symptom |-> "joint pain",     keywords |-> <<"joint pain", "knee pain">>] >>

\* the list comprehension order of a loop over a table: the entries that pass, in
\* table order
RECURSIVE Filter(_, _)
Filter(seq, keep) ==
    IF seq = <<>> THEN <<>>
    ELSE (IF Head(seq) \in keep THEN <<Head(seq)>> ELSE <<>>) \o Filter(Tail(seq), keep)

CanonicalSymptoms == [i \in 1..Len(SymptomKeywords) |-> SymptomKeywords[i].symptom]

\* _extract_multiple_symptoms: every symptom one of whose keywords occurs in message
_extract_multiple_symptoms(message) ==
    Filter(CanonicalSymptoms,
           {SymptomKeywords[i].symptom : i \in
              {j \in 1..Len(SymptomKeywords) :
                 ContainsAny(message, SymptomKeywords[j].keywords)}})

SetOf(seq) == {seq[i] : i \in 1..Len(seq)}

\* the five condition rules of _analyze_symptoms, in the order it tests them
ConditionRules ==
    << [name |-> "Flu/Influenza",     symptoms |-> {"fever", "cough", "body ache", "fatigue"},
        threshold |-> 2],
       [name |-> "Possible COVID-19", symptoms |-> {"fever", "cough", "breathlessness", "fatigue"},
        threshold |-> 2],
       [name |-> "Common Cold",       symptoms |-> {"sore throat", "cough", "headache"},
        threshold |-> 2],
       [name |-> "Possible Dengue",   symptoms |-> {"fever", "headache", "body ache", "rash"},
        threshold |-> 3],
       [name |-> "Gastroenteritis",   symptoms |-> {"stomach pain", "nausea", "diarrhea"},
        threshold |-> 2] >>

\* variant: the overlap must exceed the threshold
RuleFires_Strict(rule, symptoms) ==
    Cardinality(SetOf(symptoms) \cap rule.symptoms) > rule.threshold

\* whether the rule's if statement appends its hypothesis
RuleFires(rule, symptoms) ==
    Cardinality(SetOf(symptoms) \cap rule.symptoms) >= rule.threshold

RECURSIVE MatchedConditions(_, _)
MatchedConditions(rules, symptoms) ==
    IF rules = <<>> THEN <<>>
    ELSE (IF RuleFires(Head(rules), symptoms) THEN <<Head(rules).name>> ELSE <<>>)
           \o MatchedConditions(Tail(rules), symptoms)

EmergencySymptoms == {"breathlessness", "chest pain"}

\* variant: conditions.append(EMERGENCY)
WithEmergency_Appended(conditions, symptoms) ==
    IF \E i \in 1..Len(symptoms) : symptoms[i] \in EmergencySymptoms
    THEN conditions \o <<"EMERGENCY">>
    ELSE conditions

\* conditions.insert(0, EMERGENCY) when a detected symptom is an emergency symptom
WithEmergency(conditions, symptoms) ==
    IF \E i \in 1..Len(symptoms) : symptoms[i] \in EmergencySymptoms
    THEN <<"EMERGENCY">> \o conditions
    ELSE conditions

\* _analyze_symptoms: the hypotheses it joins with blank lines, in order
_analyze_symptoms(symptoms) ==
    LET conditions == WithEmergency(MatchedConditions(ConditionRules, symptoms), symptoms)
    IN  IF conditions = <<>> THEN <<"General illness">> ELSE conditions

---------------------------------------------------------------------------
(* The endpoints' answers, as requests.get and response.json() deliver them *)

\* A topic-summary answer.  outcome: "exception" (requests.get raises: network
\* error, timeout), "non200", "badjson" (json() raises), "notdict" (the JSON is
\* no object: .get raises), "noentries" (no feed, or an empty entry list),
\* "entry" (entries[0] carries title, summary of summaryLen characters, link)
MedAnswer(outcome, title, summaryLen, link) ==
    [outcome |-> outcome, title |-> title, summaryLen |-> summaryLen, link |-> link]

\* A statistics answer.  outcome: "exception", "non200", "badjson", "ok" (status
\* 200 and a JSON object); data: the object's fields that are present
StatsAnswer(outcome, data) == [outcome |-> outcome, data |-> data]

StatsFields == <<"cases", "active", "recovered", "deaths", "todayCases">>

\* Python: data.get(field, 'N/A')
DataGet(data, field) == IF field \in DOMAIN data THEN JsonInt(data[field]) ELSE Str("N/A")

DigitChars == <<"0", "1", "2", "3", "4", "5", "6", "7", "8", "9">>

\* Python: str(n) for n >= 0
RECURSIVE IntToStr(_)
IntToStr(n) ==
    IF n < 10 THEN DigitChars[n + 1]
    ELSE IntToStr(n \div 10) \o DigitChars[(n % 10) + 1]

\* a digit string with a comma before every group of three digits from the right
RECURSIVE Grouped(_)
Grouped(digits) ==
    IF Len(digits) <= 3 THEN digits
    ELSE Grouped(SubSeq(digits, 1, Len(digits) - 3)) \o ","
           \o SubSeq(digits, Len(digits) - 2, Len(digits))

\* Python: f"{v:,}": an int is grouped by thousands; the ',' format is not
\* defined for a str and raises ValueError (ok = FALSE)
FormatThousands(v) ==
    IF v.k = "int" THEN [ok |-> TRUE, s |-> Grouped(IntToStr(v.n))]
    ELSE [ok |-> FALSE, s |-> ""]

\* the f-string lines of a statistics message over the fields it lists:
\* ok = FALSE when one of the format expressions raises
StatsLines(data, fields) ==
    LET parts == [i \in 1..Len(fields) |-> FormatThousands(DataGet(data, fields[i]))]
    IN  [ok |-> \A i \in 1..Len(fields) : parts[i].ok,
         lines |-> [i \in 1..Len(fields) |-> parts[i].s]]

---------------------------------------------------------------------------
(* search_health_info *)

NoMsg == Msg("")

SearchPrefixes == <<"what is", "tell me about", "tell about", "info about",
                    "information on", "i have", "my">>
SearchSuffixes == <<"info", "information", "symptoms", "symptom">>

\* lines 30-35: the query the gateway sends
SearchQuery(query) ==
    Strip(JoinWords(RemoveTrailing(RemoveLeading(Lower(Strip(query)), SearchPrefixes),
                                   SearchSuffixes)))

\* variant: a summary of 80 characters is enough
MedlineResult_AtLeast80(med) ==
    IF med.outcome = "entry" /\ med.title # "" /\ med.summaryLen >= 80
    THEN [Msg("medline") EXCEPT
            !.a = <<med.title,
                    IF med.link # "" THEN med.link ELSE "https://medlineplus.gov">>,
            !.n = <<IF med.summaryLen > 500 THEN 500 ELSE med.summaryLen,
                    IF med.summaryLen > 500 THEN 3 ELSE 0>>]
    ELSE NoMsg

\* METHOD 1, lines 45-102: the text returned, or NoMsg when control falls
\* through to METHOD 2 (every exception is caught at line 101)
MedlineResult(med) ==
    IF med.outcome = "entry" /\ med.title # "" /\ med.summaryLen > 80
    THEN [Msg("medline") EXCEPT
            !.a = <<med.title,
                    IF med.link # "" THEN med.link ELSE "https://medlineplus.gov">>,
            !.n = <<IF med.summaryLen > 500 THEN 500 ELSE med.summaryLen,
                    IF med.summaryLen > 500 THEN 3 ELSE 0>>]
    ELSE NoMsg

MentionsCovid(query) == Contains(query, "covid") \/ Contains(query, "coronavirus")

\* METHOD 2, lines 107-131: the text returned, or NoMsg (not 200, or an
\* exception caught at line 130)
CovidResult(stats) ==
    IF stats.outcome = "ok" /\ StatsLines(stats.data, StatsFields).ok
    THEN [Msg("covid_stats_india") EXCEPT !.a = StatsLines(stats.data, StatsFields).lines]
    ELSE NoMsg

\* variant: no test of the query's length before the requests
search_health_info_NoLengthTest(query, med, stats) ==
    LET q == SearchQuery(query)
    IN  IF MedlineResult(med) # NoMsg
        THEN [result |-> MedlineResult(med), calls |-> <<"medlineplus">>,
              raised |-> FALSE]
        ELSE IF MentionsCovid(q)
        THEN [result |-> CovidResult(stats),
              calls |-> <<"medlineplus", "disease.sh/india">>, raised |-> FALSE]
        ELSE [result |-> NoMsg, calls |-> <<"medlineplus">>, raised |-> FALSE]

\* variant: METHOD 1 without its try/except, so a failed request or a payload
\* that cannot be read leaves the function as an exception
search_health_info_Uncaught(query, med, stats) ==
    LET q == SearchQuery(query)
    IN  IF Len(q) < 3
        THEN [result |-> NoMsg, calls |-> <<>>, raised |-> FALSE]
        ELSE IF med.outcome \in {"exception", "badjson", "notdict"}
        THEN [result |-> NoMsg, calls |-> <<"medlineplus">>, raised |-> TRUE]
        ELSE IF MedlineResult(med) # NoMsg
        THEN [result |-> MedlineResult(med), calls |-> <<"medlineplus">>,
              raised |-> FALSE]
        ELSE IF MentionsCovid(q)
        THEN [result |-> CovidResult(stats),
              calls |-> <<"medlineplus", "disease.sh/india">>, raised |-> FALSE]
        ELSE [result |-> NoMsg, calls |-> <<"medlineplus">>, raised |-> FALSE]

\* variant: the except of METHOD 1 returns None, so METHOD 2 runs only when the
\* topic-summary request was answered
search_health_info_ExceptReturns(query, med, stats) ==
    LET q == SearchQuery(query)
    IN  IF Len(q) < 3
        THEN [result |-> NoMsg, calls |-> <<>>, raised |-> FALSE]
        ELSE IF med.outcome \in {"exception", "badjson", "notdict"}
        THEN [result |-> NoMsg, calls |-> <<"medlineplus">>, raised |-> FALSE]
        ELSE IF MedlineResult(med) # NoMsg
        THEN [result |-> MedlineResult(med), calls |-> <<"medlineplus">>,
              raised |-> FALSE]
        ELSE IF MentionsCovid(q)
        THEN [result |-> CovidResult(stats),
              calls |-> <<"medlineplus", "disease.sh/india">>, raised |-> FALSE]
        ELSE [result |-> NoMsg, calls |-> <<"medlineplus">>, raised |-> FALSE]

\* search_health_info(query): the value returned (NoMsg is None), the requests
\* issued in order, and whether an exception leaves the function
search_health_info(query, med, stats) ==
    LET q == SearchQuery(query)
    IN  IF Len(q) < 3
        THEN [result |-> NoMsg, calls |-> <<>>, raised |-> FALSE]
        ELSE IF MedlineResult(med) # NoMsg
        THEN [result |-> MedlineResult(med), calls |-> <<"medlineplus">>,
              raised |-> FALSE]
        ELSE IF MentionsCovid(q)
        THEN [result |-> CovidResult(stats),
              calls |-> <<"medlineplus", "disease.sh/india">>, raised |-> FALSE]
        ELSE [result |-> NoMsg, calls |-> <<"medlineplus">>, raised |-> FALSE]

---------------------------------------------------------------------------
(* ActionAnswerHealthQuestion *)

QuestionPrefixes == <<"i have", "what is", "tell me about", "tell about",
                      "info about", "information on", "about", "info on">>
QuestionSuffixes == <<"info", "information", "symptoms", "symptom", "disease">>

\* lines 547-552: the cleaned question
CleanQuestion(text) ==
    Strip(RemoveTrailing(RemoveLeading(Lower(text), QuestionPrefixes),
                         QuestionSuffixes))

QuickTopics == <<"water", "sleep", "exercise", "diet">>

\* health_topics in iteration order: a key written twice keeps its first place
\* and takes its last text; line is where that text starts
HealthTopics ==
    << [key |-> "fever", line |-> 580],
       [key |-> "typhoid", line |-> 609],
       [key |-> "cholera", line |-> 633],
       [key |-> "malaria", line |-> 654],
       [key |-> "dengue", line |-> 677],
       [key |-> "jaundice", line |-> 700],
       [key |-> "tuberculosis", line |-> 722],
       [key |-> "diabetes", line |-> 1197],
       [key |-> "hypertension", line |-> 1230],
       [key |-> "asthma", line |-> 781],
       [key |-> "pcod", line |-> 799],
       [key |-> "hepatitis a", line |-> 819],
       [key |-> "hepatitis b", line |-> 854],
       [key |-> "hepatitis", line |-> 892],
       [key |-> "chickenpox", line |-> 894],
       [key |-> "measles", line |-> 939],
       [key |-> "mumps", line |-> 978],
       [key |-> "migraine", line |-> 1016],
       [key |-> "headache", line |-> 1062],
       [key |-> "back pain", line |-> 1104],
       [key |-> "knee pain", line |-> 1152],
       [key |-> "leg pain", line |-> 1176],
       [key |-> "joint pain", line |-> 1195],
       [key |-> "blood pressure", line |-> 1253],
       [key |-> "thyroid", line |-> 1255],
       [key |-> "cancer", line |-> 1396],
       [key |-> "heart", line |-> 1424],
       [key |-> "stroke", line |-> 1445],
       [key |-> "covid", line |-> 1312],
       [key |-> "mental health", line |-> 1328],
       [key |-> "pregnancy", line |-> 1340],
       [key |-> "pneumonia", line |-> 1367],
       [key |-> "arthritis", line |-> 1470],
       [key |-> "alzheimer", line |-> 1496],
       [key |-> "depression", line |-> 1521],
       [key |-> "anxiety", line |-> 1549] >>

\* the first index of a table that passes a test, 0 when none does
FirstIndex(hits) == IF hits = {} THEN 0 ELSE CHOOSE i \in hits : \A j \in hits : i <= j

\* lines 565-568: the first quick topic occurring in the question
QuickTopicMatch(question) ==
    FirstIndex({i \in 1..Len(QuickTopics) : Contains(question, QuickTopics[i])})

\* lines 1575-1579: the first topic with  topic in question or question in topic
HealthTopicMatch(question) ==
    FirstIndex({i \in 1..Len(HealthTopics) :
                  \/ Contains(question, HealthTopics[i].key)
                  \/ Contains(HealthTopics[i].key, question)})

KbEntry(i) ==
    [Msg("kb_entry") EXCEPT !.a = <<HealthTopics[i].key>>, !.n = <<HealthTopics[i].line>>]

Answer(question, consulted, calls, result, messages, raised) ==
    [question |-> question, consulted |-> consulted, calls |-> calls,
     result |-> result, messages |-> messages, raised |-> raised]

\* variant: search_health_info called before the quick topics are tested
AnswerHealthQuestionRun_GatewayFirst(text, med, stats) ==
    LET question == CleanQuestion(text)
        quick    == QuickTopicMatch(question)
        g        == search_health_info(question, med, stats)
        topic    == HealthTopicMatch(question)
    IN  IF g.result # NoMsg
        THEN Answer(question, <<"gateway">>, g.calls, g.result, <<g.result>>, FALSE)
        ELSE IF quick # 0
        THEN Answer(question, <<"gateway", "quick">>, g.calls, NoMsg,
                    <<[Msg("quick_topic") EXCEPT !.a = <<QuickTopics[quick]>>]>>, FALSE)
        ELSE IF topic # 0
        THEN Answer(question, <<"gateway", "quick", "kb">>, g.calls, NoMsg,
                    <<KbEntry(topic)>>, FALSE)
        ELSE Answer(question, <<"gateway", "quick", "kb", "fallback">>, g.calls, NoMsg,
                    <<Msg("qa_fallback")>>, FALSE)

\* variant: the knowledge-base loop placed before the call of search_health_info
AnswerHealthQuestionRun_KbBeforeGateway(text, med, stats) ==
    LET question == CleanQuestion(text)
        quick    == QuickTopicMatch(question)
        g        == search_health_info(question, med, stats)
        topic    == HealthTopicMatch(question)
    IN  IF quick # 0
        THEN Answer(question, <<"quick">>, <<>>, NoMsg,
                    <<[Msg("quick_topic") EXCEPT !.a = <<QuickTopics[quick]>>]>>, FALSE)
        ELSE IF topic # 0
        THEN Answer(question, <<"quick", "kb">>, <<>>, NoMsg,
                    <<KbEntry(topic)>>, FALSE)
        ELSE IF g.raised
        THEN Answer(question, <<"quick", "kb", "gateway">>, g.calls, NoMsg, <<>>, TRUE)
        ELSE IF g.result # NoMsg
        THEN Answer(question, <<"quick", "kb", "gateway">>, g.calls, g.result,
                    <<g.result>>, FALSE)
        ELSE Answer(question, <<"quick", "kb", "gateway", "fallback">>, g.calls, NoMsg,
                    <<Msg("qa_fallback")>>, FALSE)

\* variant: the quick-topic loop utters its answer and does not return
AnswerHealthQuestionRun_QuickNoReturn(text, med, stats) ==
    LET question == CleanQuestion(text)
        quick    == QuickTopicMatch(question)
        said     == IF quick # 0
                    THEN <<[Msg("quick_topic") EXCEPT !.a = <<QuickTopics[quick]>>]>>
                    ELSE <<>>
        g        == search_health_info(question, med, stats)
        topic    == HealthTopicMatch(question)
    IN  IF g.result # NoMsg
        THEN Answer(question, <<"quick", "gateway">>, g.calls, g.result,
                    said \o <<g.result>>, FALSE)
        ELSE IF topic # 0
        THEN Answer(question, <<"quick", "gateway", "kb">>, g.calls, NoMsg,
                    said \o <<KbEntry(topic)>>, FALSE)
        ELSE Answer(question, <<"quick", "gateway", "kb", "fallback">>, g.calls, NoMsg,
                    said \o <<Msg("qa_fallback")>>, FALSE)

\* ActionAnswerHealthQuestion.run on the latest message's text: the sources it
\* consults in order, the requests issued, what search_health_info returned,
\* and the messages uttered
AnswerHealthQuestionRun(text, med, stats) ==
    LET question == CleanQuestion(text)
        quick    == QuickTopicMatch(question)
        g        == search_health_info(question, med, stats)
        topic    == HealthTopicMatch(question)
    IN  IF quick # 0
        THEN Answer(question, <<"quick">>, <<>>, NoMsg,
                    <<[Msg("quick_topic") EXCEPT !.a = <<QuickTopics[quick]>>]>>, FALSE)
        ELSE IF g.raised
        THEN Answer(question, <<"quick", "gateway">>, g.calls, NoMsg, <<>>, TRUE)
        ELSE IF g.result # NoMsg
        THEN Answer(question, <<"quick", "gateway">>, g.calls, g.result,
                    <<g.result>>, FALSE)
        ELSE IF topic # 0
        THEN Answer(question, <<"quick", "gateway", "kb">>, g.calls, NoMsg,
                    <<KbEntry(topic)>>, FALSE)
        ELSE Answer(question, <<"quick", "gateway", "kb", "fallback">>, g.calls, NoMsg,
                    <<Msg("qa_fallback")>>, FALSE)

\* the phrases that make ActionSymptomChecker.run hand over to the question action
RedirectPhrases == <<"what is", "tell me about", "info about", "information on">>

\* ActionSymptomChecker.run as it is indented: line 398 binds `action` only inside
\* the if, line 399 returns action.run(..) in every case, so without a question
\* phrase the name is unbound (UnboundLocalError) and lines 400-416 never run
SymptomCheckerRun(text, med, stats) ==
    IF ContainsAny(Lower(text), RedirectPhrases)
    THEN AnswerHealthQuestionRun(text, med, stats)
    ELSE Answer("", <<>>, <<>>, NoMsg, <<>>, TRUE)

---------------------------------------------------------------------------
(* ActionFetchGovernmentData and ActionFetchHealthData *)

\* ActionFetchGovernmentData.run: one try block around the request, the five
\* statistics lines (only on status 200) and the resources text
FetchGovernmentDataRun(stats) ==
    IF stats.outcome \in {"exception", "badjson"}
    THEN <<Msg("gov_unable_to_fetch")>>
    ELSE IF stats.outcome = "non200"
    THEN <<Msg("gov_health_data")>>
    ELSE IF StatsLines(stats.data, StatsFields).ok
    THEN <<[Msg("gov_health_data") EXCEPT !.a = StatsLines(stats.data, StatsFields).lines]>>
    ELSE <<Msg("gov_unable_to_fetch")>>

\* the four fields ActionFetchHealthData lists, in its order
GlobalFields == <<"cases", "deaths", "recovered", "active">>

FetchHealthDataRun(stats) ==
    IF stats.outcome \in {"exception", "badjson"}
    THEN <<Msg("global_error_fetching")>>
    ELSE IF stats.outcome = "non200"
    THEN <<Msg("global_unable_to_fetch")>>
    ELSE IF StatsLines(stats.data, GlobalFields).ok
    THEN <<[Msg("global_covid_data") EXCEPT !.a = StatsLines(stats.data, GlobalFields).lines]>>
    ELSE <<Msg("global_error_fetching")>>

\* ActionFetchDiseaseInfo.run: a COVID message is handed to
\* ActionFetchHealthData, any other message goes to search_health_info as it
\* is (lowered); query is the query search_health_info has after its cleaning
FetchDiseaseInfoRun(text, med, stats) ==
    LET message_text == Lower(text)
        g == search_health_info(message_text, med, stats)
    IN  IF MentionsCovid(message_text)
        THEN [path |-> "covid", query |-> "", calls |-> <<"disease.sh/all">>,
              result |-> NoMsg, messages |-> FetchHealthDataRun(stats),
              raised |-> FALSE]
        ELSE [path |-> "search", query |-> SearchQuery(message_text), calls |-> g.calls,
              result |-> g.result,
              messages |-> IF g.result # NoMsg THEN <<g.result>>
                           ELSE <<Msg("disease_info_resources")>>,
              raised |-> g.raised]

---------------------------------------------------------------------------
(* ValidateHealthCheckupForm *)

\* validate_temperature: a str is lowered; a word for normal is 98.6, a
\* number in [95, 107] is stored as a float; any other value is stored as it is
validate_temperature(slot_value) ==
    LET temp == ParseFloat(Lower(slot_value.s))
    IN  IF slot_value.k # "str" THEN Validated(slot_value, <<>>)
        ELSE IF Lower(slot_value.s) \in {"normal", "fine", "ok", "good"}
        THEN Validated(Num(986), <<>>)
        ELSE IF ~temp.ok
        THEN Validated(None, <<Msg("temperature_not_valid")>>)
        ELSE IF 950 <= temp.n /\ temp.n <= 1070           \* 95.0 <= temp <= 107.0
        THEN Validated(Num(temp.n), <<>>)
        ELSE Validated(None, <<Msg("temperature_out_of_range")>>)

\* validate_mood_level: a str that holds one of valid_moods is stored as typed
validate_mood_level(slot_value) ==
    IF /\ slot_value.k = "str"
       /\ ContainsAny(Lower(slot_value.s),
                      <<"happy", "neutral", "sad", "anxious", "stressed", "good",
                        "bad", "ok", "fine">>)
    THEN Validated(slot_value, <<>>)
    ELSE Validated(None, <<Msg("mood_please_describe")>>)

\* validate_pain_score: a str is lowered; a word for none is "0", an int in
\* 0..10 is stored as str(score); any other value is stored as it is
validate_pain_score(slot_value) ==
    LET score == PyInt(Str(Lower(slot_value.s)))
    IN  IF slot_value.k # "str" THEN Validated(slot_value, <<>>)
        ELSE IF Lower(slot_value.s) \in {"no", "none", "zero", "no pain"}
        THEN Validated(Str("0"), <<>>)
        ELSE IF ~score.ok
        THEN Validated(None, <<Msg("pain_not_a_number")>>)
        ELSE IF 0 <= score.n /\ score.n <= 10
        THEN Validated(Str(IntToStr(score.n)), <<>>)
        ELSE Validated(None, <<Msg("pain_out_of_range")>>)

\* validate_symptom_name: `slot_value and len(slot_value) > 2`: len() of a
\* number that is not zero raises TypeError, which nothing catches
validate_symptom_name(slot_value) ==
    IF ~Truthy(slot_value)
    THEN Validated(None, <<Msg("symptom_please_describe")>>)
    ELSE IF slot_value.k \in {"num", "int", "bigint"} THEN Uncaught
    ELSE IF slot_value.k = "str" /\ Len(slot_value.s) > 2
    THEN Validated(slot_value, <<>>)
    ELSE Validated(None, <<Msg("symptom_please_describe")>>)

---------------------------------------------------------------------------
(* ActionSubmitCheckup: the check-up summary *)

CheckupSlots == <<"temperature", "mood_level", "pain_score", "symptom_name">>

CheckupSlotNames == {CheckupSlots[i] : i \in 1..Len(CheckupSlots)}

\* Python: str(v) of a str or of a float with one fraction digit
PyStr(v) ==
    CASE v.k = "str" -> v.s
      [] v.k = "num" -> (IF v.n < 0 THEN "-" ELSE "")
                          \o IntToStr((IF v.n < 0 THEN 0 - v.n ELSE v.n) \div 10) \o "."
                          \o IntToStr((IF v.n < 0 THEN 0 - v.n ELSE v.n) % 10)
      [] OTHER -> ""

\* the branch of the temperature test a number takes: the elif is tested only
\* when temp > 100.4 is false
TempRecs(temp) ==
    IF temp.k = "bigint" THEN <<"Fever detected">>
    ELSE IF temp.k # "num" THEN <<>>
    ELSE IF temp.n > 1004 THEN <<"Fever detected">>
    ELSE IF temp.n >= 1030 THEN <<"HIGH FEVER">>
    ELSE <<>>

\* pain_val = int(pain) if pain else 0
PainVal(pain) ==
    IF Truthy(pain) THEN PyInt(pain) ELSE [ok |-> TRUE, n |-> 0, big |-> FALSE]

\* the int no double holds is 10 ** 400, above every threshold
PainRecs(pain_val) ==
    IF pain_val.big \/ pain_val.n >= 7 THEN <<"High pain level">>
    ELSE IF pain_val.n >= 4 THEN <<"Moderate pain">>
    ELSE <<>>

MoodRecs(mood) ==
    IF Truthy(mood) /\ ContainsAny(Lower(PyStr(mood)), <<"sad", "anxious", "stressed">>)
    THEN <<"Mental health matters">> ELSE <<>>

\* the same with the try block's `except: pass` taken away: the error of
\* int(pain) leaves the method
_analyze_health_NoExcept(temp, mood, pain, symptom) ==
    LET pain_val == PainVal(pain)
        recs     == TempRecs(temp) \o PainRecs(pain_val) \o MoodRecs(mood)
    IN  [raised |-> ~pain_val.ok,
         recs   |-> IF recs = <<>> THEN <<"Health seems stable">> ELSE recs]

\* _analyze_health: the recommendations, in the order appended; an error of
\* int(pain) is swallowed by the bare except and adds nothing
_analyze_health(temp, mood, pain, symptom) ==
    LET pain_val == PainVal(pain)
        recs     == TempRecs(temp)
                      \o (IF pain_val.ok THEN PainRecs(pain_val) ELSE <<>>)
                      \o MoodRecs(mood)
    IN  [raised |-> FALSE,
         recs   |-> IF recs = <<>> THEN <<"Health seems stable">> ELSE recs]

\* ActionSubmitCheckup.run on the tracker's check-up slots: one summary message
\* (b: the four values as formatted, a: the recommendations) and the four clears
SubmitCheckupRun(sl) ==
    LET temperature == sl["temperature"]
        mood        == sl["mood_level"]
        pain        == sl["pain_score"]
        symptom     == sl["symptom_name"]
        analysis    == _analyze_health(temperature, mood, pain, symptom)
    IN  IF analysis.raised
        THEN [messages |-> <<>>, events |-> <<>>, raised |-> TRUE]
        ELSE [messages |-> <<[Msg("checkup_summary") EXCEPT
                                !.a = analysis.recs,
                                !.b = <<temperature, mood, pain, symptom>>]>>,
              \* the four SlotSet(.., None) of the return statement
              events |-> [i \in 1..Len(CheckupSlots) |-> SlotSet(CheckupSlots[i], None)],
              raised |-> FALSE]

---------------------------------------------------------------------------
(* ActionRespondSymptom *)

\* the list `symptoms` of _extract_symptom, in the order declared
SymptomTable ==
    << [symptom |-> "knee pain",      keywords |-> <<"knee pain", "knees hurt", "knee hurting",
                                                     "pain in knee", "my knee", "knee ache">>],
       [symptom |-> "leg pain",       keywords |-> <<"leg pain", "legs hurt", "leg hurting",
                                                     "pain in leg", "my leg", "leg ache">>],
       [symptom |-> "joint pain",     keywords |-> <<"joint pain", "joints hurt", "joint ache">>],
       [symptom |-> "migraine",       keywords |-> <<"migraine">>],
       [symptom |-> "headache",       keywords |-> <<"headache", "head pain", "head ache">>],
       [symptom |-> "chest pain",     keywords |-> <<"chest pain", "chest ache">>],
       [symptom |-> "back pain",      keywords |-> <<"back pain", "back ache">>],
       [symptom |-> "stomach pain",   keywords |-> <<"stomach pain", "stomach ache",
                                                     "belly pain">>],
       [symptom |-> "body pain",      keywords |-> <<"body pain", "body ache", "muscle pain">>],
       [symptom |-> "fever",          keywords |-> <<"fever", "temperature", "feverish">>],
       [symptom |-> "cough",          keywords |-> <<"cough", "coughing">>],
       [symptom |-> "cold",           keywords |-> <<"cold", "runny nose", "sneezing">>],
       [symptom |-> "sore throat",    keywords |-> <<"sore throat", "throat pain">>],
       [symptom |-> "diarrhea",       keywords |-> <<"diarrhea", "loose motion">>],
       [symptom |-> "vomiting",       keywords |-> <<"vomit", "vomiting", "nausea">>],
       [symptom |-> "breathlessness", keywords |-> <<"breathless", "breathing problem">>] >>

\* variant: the loop keeps going and the last matching entry wins
_extract_symptom_LastMatch(message) ==
    LET hits == {i \in 1..Len(SymptomTable) :
                   ContainsAny(message, SymptomTable[i].keywords)}
    IN  IF hits = {} THEN "general"
        ELSE SymptomTable[CHOOSE i \in hits : \A j \in hits : j <= i].symptom

\* _extract_symptom: the loops return at the first entry, in declaration order,
\* one of whose keywords occurs in message
_extract_symptom(message) ==
    LET hits == {i \in 1..Len(SymptomTable) :
                   ContainsAny(message, SymptomTable[i].keywords)}
    IN  IF hits = {} THEN "general"
        ELSE SymptomTable[CHOOSE i \in hits : \A j \in hits : i <= j].symptom

\* _get_symptom_advice: the entry of symptom_advice for the eight symptoms it
\* has one for, otherwise the general template headed by symptom.title()
_get_symptom_advice(symptom) ==
    IF symptom \in {"knee pain", "leg pain", "fever", "headache", "cough",
                    "stomach pain", "chest pain", "breathlessness"}
    THEN [Msg("symptom_advice") EXCEPT !.a = <<symptom>>]
    ELSE [Msg("symptom_general") EXCEPT !.a = <<Title(symptom)>>]

---------------------------------------------------------------------------
(* The tracker and the action runs *)

SlotNames == {BMISlots[i] : i \in 1..Len(BMISlots)}

NoSlots == [name \in SlotNames |-> None]

\* the dialogue engine applies the SlotSet events an action returns, in order
RECURSIVE ApplyEvents(_, _)
ApplyEvents(sl, events) ==
    IF events = <<>> THEN sl
    ELSE ApplyEvents([sl EXCEPT ![Head(events).slot] = Head(events).value],
                     Tail(events))

NoOut ==
    [action |-> "", session |-> "", raw |-> None, before |-> NoSlots,
     messages |-> <<>>, events |-> <<>>, raised |-> FALSE, path |-> "",
     question |-> "", consulted |-> <<>>, calls |-> <<>>, result |-> NoMsg,
     returned |-> <<>>]

NoEnv ==
    [text |-> "", med |-> MedAnswer("exception", "", 0, ""),
     stats |-> StatsAnswer("exception", <<>>), symptoms |-> <<>>, raw |-> None]

\* FormValidationAction.run: validate_<slot> is called with the extracted value
\* and the dict it returns becomes the SlotSet event for that slot
ValidatorOut(s, name, raw, r) ==
    [NoOut EXCEPT !.action = "validate_" \o name, !.session = s, !.raw = raw,
                  !.messages = r.messages,
                  !.events = IF r.raised THEN <<>> ELSE <<SlotSet(name, r.value)>>,
                  !.raised = r.raised]

ValidateWeight(s, raw) ==
    LET o == ValidatorOut(s, "weight", raw, validate_weight(raw))
    IN  /\ slots' = [slots EXCEPT ![s] = ApplyEvents(slots[s], o.events)]
        /\ out' = o
        /\ UNCHANGED env

ValidateHeight(s, raw) ==
    LET o == ValidatorOut(s, "height", raw, validate_height(raw))
    IN  /\ slots' = [slots EXCEPT ![s] = ApplyEvents(slots[s], o.events)]
        /\ out' = o
        /\ UNCHANGED env

ValidateAge(s, raw) ==
    LET o == ValidatorOut(s, "age", raw, validate_age(raw))
    IN  /\ slots' = [slots EXCEPT ![s] = ApplyEvents(slots[s], o.events)]
        /\ out' = o
        /\ UNCHANGED env

ValidateGender(s, raw) ==
    LET o == ValidatorOut(s, "gender", raw, validate_gender(raw))
    IN  /\ slots' = [slots EXCEPT ![s] = ApplyEvents(slots[s], o.events)]
        /\ out' = o
        /\ UNCHANGED env

ValidateTemperature(s, raw) ==
    LET o == ValidatorOut(s, "temperature", raw, validate_temperature(raw))
    IN  /\ slots' = [slots EXCEPT ![s] = ApplyEvents(slots[s], o.events)]
        /\ out' = o
        /\ UNCHANGED env

ValidateMoodLevel(s, raw) ==
    LET o == ValidatorOut(s, "mood_level", raw, validate_mood_level(raw))
    IN  /\ slots' = [slots EXCEPT ![s] = ApplyEvents(slots[s], o.events)]
        /\ out' = o
        /\ UNCHANGED env

ValidatePainScore(s, raw) ==
    LET o == ValidatorOut(s, "pain_score", raw, validate_pain_score(raw))
    IN  /\ slots' = [slots EXCEPT ![s] = ApplyEvents(slots[s], o.events)]
        /\ out' = o
        /\ UNCHANGED env

ValidateSymptomName(s, raw) ==
    LET o == ValidatorOut(s, "symptom_name", raw, validate_symptom_name(raw))
    IN  /\ slots' = [slots EXCEPT ![s] = ApplyEvents(slots[s], o.events)]
        /\ out' = o
        /\ UNCHANGED env

\* the dialogue engine fills a slot from an entity outside the form: the value
\* reaches the tracker without passing a validator
TrackerSetsSlot(s, name, v) ==
    /\ slots' = [slots EXCEPT ![s][name] = v]
    /\ out' = [NoOut EXCEPT !.action = "slot_filled", !.session = s, !.raw = v,
                            !.events = <<SlotSet(name, v)>>]
    /\ UNCHANGED env

\* variant: one store for all conversations: the clears reach every session
CalculateBMI_SharedStore(s) ==
    LET Returned(r) ==
            /\ slots' = [t \in DOMAIN slots |-> ApplyEvents(slots[t], r.events)]
            /\ out' = [NoOut EXCEPT !.action = "action_calculate_bmi", !.session = s,
                                    !.before = slots[s], !.messages = r.messages,
                                    !.events = r.events, !.path = r.path]
            /\ UNCHANGED env
    IN  Returned(CalculateBMIRun(slots[s]))

\* the events run returns are applied to the tracker of the conversation
CalculateBMI(s) ==
    LET Returned(r) ==
            /\ slots' = [slots EXCEPT ![s] = ApplyEvents(slots[s], r.events)]
            /\ out' = [NoOut EXCEPT !.action = "action_calculate_bmi", !.session = s,
                                    !.before = slots[s], !.messages = r.messages,
                                    !.events = r.events, !.path = r.path]
            /\ UNCHANGED env
    IN  Returned(CalculateBMIRun(slots[s]))

SubmitCheckup(s) ==
    LET r == SubmitCheckupRun(slots[s])
    IN  /\ slots' = [slots EXCEPT ![s] = ApplyEvents(slots[s], r.events)]
        /\ out' = [NoOut EXCEPT !.action = "action_submit_checkup", !.session = s,
                                !.before = slots[s], !.messages = r.messages,
                                !.events = r.events, !.raised = r.raised]
        /\ UNCHANGED env

\* one turn: the action named by the dialogue engine runs to completion on
\* env; none of these actions returns an event, so the tracker keeps its slots
AnswerHealthQuestion ==
    LET r == AnswerHealthQuestionRun(env.text, env.med, env.stats)
    IN  /\ out.action = ""
        /\ out' = [NoOut EXCEPT !.action = "action_answer_health_question",
                                !.question = r.question, !.consulted = r.consulted,
                                !.calls = r.calls, !.result = r.result,
                                !.messages = r.messages, !.raised = r.raised]
        /\ UNCHANGED <<slots, env>>

SymptomChecker ==
    LET r == SymptomCheckerRun(env.text, env.med, env.stats)
    IN  /\ out.action = ""
        /\ out' = [NoOut EXCEPT !.action = "action_symptom_checker",
                                !.question = r.question, !.consulted = r.consulted,
                                !.calls = r.calls, !.result = r.result,
                                !.messages = r.messages, !.raised = r.raised]
        /\ UNCHANGED <<slots, env>>

FetchGovernmentData ==
    /\ out.action = ""
    /\ out' = [NoOut EXCEPT !.action = "action_fetch_government_data",
                            !.calls = <<"disease.sh/india">>,
                            !.messages = FetchGovernmentDataRun(env.stats)]
    /\ UNCHANGED <<slots, env>>

FetchHealthData ==
    /\ out.action = ""
    /\ out' = [NoOut EXCEPT !.action = "action_fetch_health_data",
                            !.calls = <<"disease.sh/all">>,
                            !.messages = FetchHealthDataRun(env.stats)]
    /\ UNCHANGED <<slots, env>>

FetchDiseaseInfo ==
    LET r == FetchDiseaseInfoRun(env.text, env.med, env.stats)
    IN  /\ out.action = ""
        /\ out' = [NoOut EXCEPT !.action = "action_fetch_disease_info",
                                !.path = r.path, !.question = r.query,
                                !.calls = r.calls, !.result = r.result,
                                !.messages = r.messages, !.raised = r.raised]
        /\ UNCHANGED <<slots, env>>

\* ActionRespondSymptom.run: the advice for the symptom extracted from the
\* lower-cased text, one message, no event
RespondSymptom ==
    /\ out.action = ""
    /\ out' = [NoOut EXCEPT
                 !.action = "action_respond_symptom",
                 !.question = _extract_symptom(Lower(env.text)),
                 !.messages = <<_get_symptom_advice(_extract_symptom(Lower(env.text)))>>]
    /\ UNCHANGED <<slots, env>>

\* _analyze_symptoms applied to the detected list
AnalyzeSymptoms ==
    /\ out.action = ""
    /\ out' = [NoOut EXCEPT !.action = "_analyze_symptoms",
                            !.returned = _analyze_symptoms(env.symptoms)]
    /\ UNCHANGED <<slots, env>>

---------------------------------------------------------------------------
(* The BMI form: inputs and specifications *)

Sessions == {"s1"}

\* numeric slot values: every tenth from 0 to MaxSmallHeight (the range in
\* which a height is read as metres lies inside), and the edges of 50..250
MaxSmallHeight == 30

\* what the user may type for a weight, a height, an age and a gender, and
\* values of other types
RawInputs ==
    {Str(x) : x \in {"70", "70.5", "70kg", "70 KG", "70kgs", "70 Kgs", "70 kilos",
                     "70KILOS", "20", "19.9", "300", "300.1", "heavy", ""}}
      \cup {Num(705), None, Obj, BigInt}
      \cup {Str(x) : x \in {"1.7", "170", "170cm", "170 CM", "170centimeters",
                            "170 Centimeter", "5 feet", "5ft", "6 foot",
                            "1.0", "0.9", "2.5", "2.6", "50", "49.9", "250", "250.1",
                            "tall", ""}}
      \cup {Num(h) : h \in (0..MaxSmallHeight) \cup {499, 500, 1700, 2500, 2501}}
      \cup {Str(x) : x \in {"25", "25 years", "25year", "25 yrs", "25yr", "25 YRS",
                            "17", "2", "1.9", "120", "120.1", "old"}}
      \cup {Num(250)}
      \cup {Str(x) : x \in {"male", "man", "boy", "female", "woman", "girl", "other",
                            "transgender", "trans", "Male", " Woman ", "m", "f", "mom",
                            "xyz", ""}}
      \cup {Num(10)}

\* one validator call on one extracted value, for every validator and value
InitValidate ==
    /\ slots = [s \in Sessions |-> NoSlots]
    /\ env \in {[NoEnv EXCEPT !.raw = raw] : raw \in RawInputs}
    /\ out = NoOut

NextValidate ==
    \E s \in Sessions :
        \/ out.action = "" /\ ValidateWeight(s, env.raw)
        \/ out.action = "" /\ ValidateHeight(s, env.raw)
        \/ out.action = "" /\ ValidateAge(s, env.raw)
        \/ out.action = "" /\ ValidateGender(s, env.raw)

SpecValidate == InitValidate /\ [][NextValidate]_vars

InitBMI ==
    /\ slots = [s \in Sessions |-> NoSlots]
    /\ env = NoEnv
    /\ out = NoOut

\* values a slot can hold when it was filled outside the form
UnvalidatedValues == {Str("n/a"), Num(0), Num(2600), Obj, BigInt}

\* a whole BMI conversation: what the user types into the form (2.3 metres
\* is stored as 229.99999999999997 cm), slots filled past it, the computation
NextBMI ==
    \E s \in Sessions :
        \/ \E raw \in {Str("70kg"), Str("heavy")} : ValidateWeight(s, raw)
        \/ \E raw \in {Str("1.7"), Str("2.3"), Str("5 feet")} : ValidateHeight(s, raw)
        \/ \E raw \in {Str("25 years"), Str("16")} : ValidateAge(s, raw)
        \/ \E raw \in {Str("girl"), Str("xyz")} : ValidateGender(s, raw)
        \/ \E name \in SlotNames, v \in UnvalidatedValues : TrackerSetsSlot(s, name, v)
        \/ CalculateBMI(s)

SpecBMI == InitBMI /\ [][NextBMI]_vars

\* the computation on valid slots: every weight of the valid range in tenths of
\* a kilogram; the heights 160, 170 and 200 cm and the 2.2 m the form converts
\* (at 200 cm each tier boundary is a weight in tenths, at 160 cm and 220 cm
\* the double bmi misses some of them); ages on both sides of 18
InitCompute ==
    /\ slots \in {[s \in Sessions |->
                    [name \in SlotNames |->
                       CASE name = "weight" -> Num(w) [] name = "height" -> h
                         [] name = "age" -> Num(a) [] OTHER -> Str("female")]] :
                  w \in 200..3000,
                  h \in {Num(1600), Num(1700), Num(2000), validate_height(Num(22)).value},
                  a \in {170, 179, 180, 250}}
    /\ env = NoEnv
    /\ out = NoOut

NextCompute == \E s \in Sessions : CalculateBMI(s)

SpecCompute == InitCompute /\ [][NextCompute]_vars

\* the check-up conversation starts with whatever the four slots hold: values
\* the form's validators return and values set past them (tenths of a degree)
InitCheckup ==
    /\ slots \in {[s \in Sessions |->
                    [name \in CheckupSlotNames |->
                       CASE name = "temperature" -> t [] name = "mood_level" -> m
                         [] name = "pain_score" -> p [] OTHER -> y]] :
                  t \in {None, Obj, BigInt, Str("hot"), Str("101")}
                         \cup {Num(t) : t \in {0, 986, 1004, 1005, 1029, 1030, 1031,
                                                1070, 2000}},
                  m \in {None, Num(50), Str(""), Str("happy"), Str("sad"),
                         Str("ANXIOUS"), Str("I am Stressed")},
                  p \in {None, Obj, BigInt, Num(0), Num(39), Num(40), Num(70), Num(-5)}
                         \cup {Str(p) : p \in {"0", "3", "4", "6", "7", "10", "11", "-1",
                                                " 8 ", "7.5", "abc", ""}},
                  y \in {None, Str("headache"), Str("")}}
    /\ env = NoEnv
    /\ out = NoOut

\* the form asks for a slot and validates what the user types, in any order
\* and as often as the user is asked again; then the summary
NextCheckup ==
    \E s \in Sessions :
        \/ \E raw \in {Str("Normal"), Str("100.5"), Str("103"), Str("94.9"),
                        Str("warm"), Num(2000), BigInt} : ValidateTemperature(s, raw)
        \/ \E raw \in {Str("sad"), Str("I am Stressed"), Str("tired"), Num(50)} :
              ValidateMoodLevel(s, raw)
        \/ \E raw \in {Str("No pain"), Str("7"), Str(" 8 "), Str("11"), Str("7.5"),
                        Str("abc"), Num(70), BigInt} : ValidatePainScore(s, raw)
        \/ \E raw \in {Str("headache"), Str("ok"), None, Num(50)} :
              ValidateSymptomName(s, raw)
        \/ SubmitCheckup(s)

SpecCheckup == InitCheckup /\ [][NextCheckup]_vars

\* two conversations at once, each with its own tracker and its own user, who
\* types different values; the action server runs validators and the
\* computation for either session in any order
TwoSessions == {"s1", "s2"}

SessionInputs ==
    [s \in TwoSessions |->
       IF s = "s1"
       THEN [weight |-> Str("70kg"), height |-> Str("1.7"), age |-> Str("25 years"),
             gender |-> Str("girl")]
       ELSE [weight |-> Str("95"), height |-> Str("180"), age |-> Str("16"),
             gender |-> Str("man")]]

InitSessions ==
    /\ slots = [s \in TwoSessions |-> NoSlots]
    /\ env = NoEnv
    /\ out = NoOut

NextSessions ==
    \E s \in TwoSessions :
        \/ ValidateWeight(s, SessionInputs[s].weight)
        \/ ValidateHeight(s, SessionInputs[s].height)
        \/ ValidateAge(s, SessionInputs[s].age)
        \/ ValidateGender(s, SessionInputs[s].gender)
        \/ CalculateBMI(s)

SpecSessions == InitSessions /\ [][NextSessions]_vars

---------------------------------------------------------------------------
(* Triage: every list _extract_multiple_symptoms can return *)

InitTriage ==
    /\ slots = [s \in Sessions |-> NoSlots]
    /\ env \in {[NoEnv EXCEPT !.symptoms = Filter(CanonicalSymptoms, S)] :
                  S \in SUBSET SetOf(CanonicalSymptoms)}
    /\ out = NoOut

NextTriage == AnalyzeSymptoms

SpecTriage == InitTriage /\ [][NextTriage]_vars

---------------------------------------------------------------------------
(* Symptom advice: messages that name two things at once *)

SymptomPhrases ==
    {"my knee", "leg ache", "joints hurt", "Migraine", "head pain", "Chest Pain",
     "chest ache", "back pain", "belly pain", "fever", "coughing", "a cold",
     "nausea", "breathless", "breathing problem", "dizzy"}

InitSymptom ==
    /\ slots = [s \in Sessions |-> NoSlots]
    /\ env \in {[NoEnv EXCEPT !.text = "I have " \o a \o " and " \o b] :
                  a \in SymptomPhrases, b \in SymptomPhrases}
    /\ out = NoOut

NextSymptom == RespondSymptom

SpecSymptom == InitSymptom /\ [][NextSymptom]_vars

---------------------------------------------------------------------------
(* Questions and statistics: the utterances and the endpoints' answers *)

\* every knowledge-base key as a question of its own
TopicQuestions == {HealthTopics[i].key : i \in 1..Len(HealthTopics)}

Utterances ==
    TopicQuestions \cup
    {"water", "how much water should i drink", "what is sleep info", "diet",
     "What is Dengue", "tell me about malaria symptoms", "i have fever",
     "about heart disease", "hepatitis c", "info on thyroid",
     "what is covid", "coronavirus info", "tell me about covid symptoms",
     "what is ", "what is tb", "tb", "", "my knee pain", "information on scurvy",
     "what is  typhoid information\n", "xyzzy", "i have fever and cough",
     "I have chest pain and breathlessness", "fever, headache and rash",
     "stomach pain", "what is what is dengue", "dengue symptoms info",
     "tell me about my fever"}

MedAnswers ==
    {MedAnswer(o, "", 0, "") : o \in {"exception", "non200", "badjson", "notdict",
                                      "noentries"}}
    \cup {MedAnswer("entry", t, n, l) :
            t \in {"", "Dengue"}, n \in {80, 81, 501}, l \in {""}}
    \cup {MedAnswer("entry", "Dengue", 500, "https://medlineplus.gov/dengue.html")}

\* the numbers the statistics endpoint reports for the fields it does send
StatsValues ==
    [f \in SetOf(StatsFields) |->
       CASE f = "cases" -> 45035393 [] f = "active" -> 0 [] f = "recovered" -> 999
         [] f = "deaths" -> 533570 [] OTHER -> 1000]

StatsAnswers ==
    {StatsAnswer(o, <<>>) : o \in {"exception", "non200", "badjson"}}
    \cup {StatsAnswer("ok", [f \in present |-> StatsValues[f]]) :
            present \in SUBSET SetOf(StatsFields)}

InitQA ==
    /\ slots = [s \in Sessions |-> NoSlots]
    /\ env \in {[NoEnv EXCEPT !.text = t, !.med = m, !.stats = st] :
                  t \in Utterances, m \in MedAnswers, st \in StatsAnswers}
    /\ out = NoOut

NextQA ==
    \/ AnswerHealthQuestion
    \/ SymptomChecker
    \/ FetchGovernmentData
    \/ FetchHealthData
    \/ FetchDiseaseInfo

SpecQA == InitQA /\ [][NextQA]_vars

---------------------------------------------------------------------------
(* Properties *)

\* C1: every run of ActionCalculateBMI.run, on each return path (slots missing,
\* exception, computed), returns slot updates that set weight, height, age and
\* gender to None, and after the run none of the four slots holds a value
C1_BMIRunClearsSlots ==
    out.action = "action_calculate_bmi" =>
        /\ out.path \in {"missing", "except", "computed"}
        /\ \A name \in {"weight", "height", "age", "gender"} :
              /\ \E i \in 1..Len(out.events) : out.events[i] = SlotSet(name, None)
              /\ \A i \in 1..Len(out.events) :
                    out.events[i].slot = name => out.events[i].value = None
              /\ slots[out.session][name] = None

\* a run that found all four slots filled and took the except branch
C1_Witness ==
    /\ out.action = "action_calculate_bmi"
    /\ out.path = "except"
    /\ \A name \in {"weight", "height", "age", "gender"} :
          out.before[name] # None /\ slots[out.session][name] = None

\* C2: when the detected symptoms contain 'breathlessness' or 'chest pain', the
\* output of _analyze_symptoms has the EMERGENCY hypothesis as its first
\* hypothesis, whatever condition rules fire as well
C2_EmergencyFirst ==
    (/\ out.action = "_analyze_symptoms"
     /\ \E i \in 1..Len(env.symptoms) :
           env.symptoms[i] \in {"breathlessness", "chest pain"})
    => /\ Len(out.returned) >= 1
       /\ out.returned[1] = "EMERGENCY"

\* chest pain together with symptoms that make two condition rules fire
C2_Witness ==
    /\ out.action = "_analyze_symptoms"
    /\ \E i \in 1..Len(env.symptoms) : env.symptoms[i] = "chest pain"
    /\ Len(out.returned) >= 3
    /\ out.returned[1] = "EMERGENCY"

\* C3: an utterance given to ActionSymptomChecker.run that reports symptoms and
\* holds none of the question phrases makes the action complete normally and
\* utter the detected symptoms, the triage hypotheses and the disclaimer
C3_SymptomReportAnalysed ==
    (/\ out.action = "action_symptom_checker"
     /\ ~ContainsAny(Lower(env.text),
                     <<"what is", "tell me about", "info about", "information on">>)
     /\ _extract_multiple_symptoms(Lower(env.text)) # <<>>)
    => /\ ~out.raised
       /\ Len(out.messages) = 1
       /\ out.messages[1].kind = "symptom_analysis"
       /\ out.messages[1].a = _extract_multiple_symptoms(Lower(env.text))
       /\ out.messages[1].b =
            _analyze_symptoms(_extract_multiple_symptoms(Lower(env.text)))

\* C4: each of the five condition rules has its hypothesis in the output of
\* _analyze_symptoms if and only if the detected symptoms share at least the
\* rule's threshold of symptoms with the rule's set; {fever, cough, body ache}
\* includes flu and excludes dengue
C4_RuleIffThreshold ==
    out.action = "_analyze_symptoms" =>
        LET S == {env.symptoms[i] : i \in 1..Len(env.symptoms)}
            H == {out.returned[i] : i \in 1..Len(out.returned)}
        IN  /\ "Flu/Influenza" \in H <=>
                 Cardinality(S \cap {"fever", "cough", "body ache", "fatigue"}) >= 2
            /\ "Possible COVID-19" \in H <=>
                 Cardinality(S \cap {"fever", "cough", "breathlessness", "fatigue"}) >= 2
            /\ "Common Cold" \in H <=>
                 Cardinality(S \cap {"sore throat", "cough", "headache"}) >= 2
            /\ "Possible Dengue" \in H <=>
                 Cardinality(S \cap {"fever", "headache", "body ache", "rash"}) >= 3
            /\ "Gastroenteritis" \in H <=>
                 Cardinality(S \cap {"stomach pain", "nausea", "diarrhea"}) >= 2
            /\ S = {"fever", "cough", "body ache"} =>
                 "Flu/Influenza" \in H /\ "Possible Dengue" \notin H

\* the example of the claim: flu (and possible COVID) without dengue
C4_Witness ==
    /\ out.action = "_analyze_symptoms"
    /\ env.symptoms = <<"fever", "cough", "body ache">>
    /\ out.returned = <<"Flu/Influenza", "Possible COVID-19">>

\* C5: when the knowledge-base loop of ActionAnswerHealthQuestion.run is reached
\* with the cleaned question equal to a key of health_topics, the text uttered
\* is the entry stored under that key
C5_ExactKeyOwnEntry ==
    (/\ out.action = "action_answer_health_question"
     /\ out.question \in TopicQuestions
     /\ \E i \in 1..Len(out.consulted) : out.consulted[i] = "kb")
    => /\ Len(out.messages) = 1
       /\ out.messages[1].kind = "kb_entry"
       /\ out.messages[1].a = <<out.question>>

\* C6: ActionAnswerHealthQuestion.run consults the quick-topic table, then
\* search_health_info, then the knowledge base, then the generic fallback: the
\* sources consulted are a prefix of this order, each source before the last
\* consulted one produced nothing, and the message uttered is the answer of the
\* last consulted one
C6_SourcesInFixedOrder ==
    out.action = "action_answer_health_question" =>
        /\ Len(out.messages) = 1
        /\ out.messages[1].kind \in
             {"quick_topic", "medline", "covid_stats_india", "kb_entry", "qa_fallback"}
        /\ LET m   == out.messages[1]
               q   == out.question
               src == CASE m.kind = "quick_topic" -> 1
                        [] m.kind \in {"medline", "covid_stats_india"} -> 2
                        [] m.kind = "kb_entry" -> 3
                        [] OTHER -> 4
               quickHit(t) == Contains(q, t)
               kbHit(k)    == Contains(q, k) \/ Contains(k, q)
           IN  /\ out.consulted = SubSeq(<<"quick", "gateway", "kb", "fallback">>, 1, src)
               /\ src = 1 => /\ quickHit(m.a[1])
                             /\ m.a[1] \in {"water", "sleep", "exercise", "diet"}
                             /\ out.calls = <<>>
               /\ src >= 2 => \A t \in {"water", "sleep", "exercise", "diet"} : ~quickHit(t)
               /\ src = 2 => m = out.result
               /\ src >= 3 => out.result = NoMsg
               /\ src = 3 => m.a[1] \in TopicQuestions /\ kbHit(m.a[1])
               /\ src = 4 => \A k \in TopicQuestions : ~kbHit(k)

\* a COVID question for which both requests gave nothing and the knowledge base
\* answered
C6_Witness ==
    /\ out.action = "action_answer_health_question"
    /\ out.consulted = <<"quick", "gateway", "kb">>
    /\ out.calls = <<"medlineplus", "disease.sh/india">>
    /\ out.result = NoMsg
    /\ out.messages = <<[Msg("kb_entry") EXCEPT !.a = <<"covid">>, !.n = <<1312>>]>>

\* C7: when the topic-summary request fails (network error or timeout, status
\* other than 200, malformed payload) and no COVID statistics result is
\* obtained, search_health_info returns None without raising and
\* ActionAnswerHealthQuestion.run goes on to the knowledge base and utters a
\* matching entry or the generic fallback
C7_GatewayFailureFallsBack ==
    (/\ out.action = "action_answer_health_question"
     /\ Len(out.calls) >= 1
     /\ out.calls[1] = "medlineplus"
     /\ env.med.outcome \in {"exception", "non200", "badjson", "notdict", "noentries"}
     /\ out.result.kind # "covid_stats_india")
    => /\ ~out.raised
       /\ out.result = NoMsg
       /\ \E i \in 1..Len(out.consulted) : out.consulted[i] = "kb"
       /\ Len(out.messages) = 1
       /\ out.messages[1].kind \in {"kb_entry", "qa_fallback"}

\* the request raised and the question is no knowledge-base topic
C7_Witness ==
    /\ out.action = "action_answer_health_question"
    /\ env.med.outcome = "exception"
    /\ out.calls = <<"medlineplus">>
    /\ ~out.raised
    /\ out.messages = <<Msg("qa_fallback")>>

\* C8: when a COVID statistics endpoint answers 200 with a JSON object that
\* lacks one or more of cases, active, recovered, deaths, todayCases, the
\* statistics response is still produced, 'N/A' in place of each absent field
\* and the present fields with thousands separators (search_health_info,
\* ActionFetchGovernmentData, ActionFetchHealthData)
C8_AbsentFieldRenderedNA ==
    LET data == env.stats.data
        all  == <<"cases", "active", "recovered", "deaths", "todayCases">>
        Shown(f) == IF f \notin DOMAIN data THEN "N/A"
                    ELSE CASE f = "cases" -> "45,035,393"
                           [] f = "active" -> "0"
                           [] f = "recovered" -> "999"
                           [] f = "deaths" -> "533,570"
                           [] OTHER -> "1,000"
        Lines(fields) == [i \in 1..Len(fields) |-> Shown(fields[i])]
    IN  (/\ env.stats.outcome = "ok"
         /\ \E i \in 1..Len(all) : all[i] \notin DOMAIN data)
        => /\ out.action = "action_fetch_government_data" =>
                out.messages = <<[Msg("gov_health_data") EXCEPT !.a = Lines(all)]>>
           /\ out.action = "action_fetch_health_data" =>
                out.messages = <<[Msg("global_covid_data") EXCEPT
                                   !.a = Lines(<<"cases", "deaths", "recovered", "active">>)]>>
           /\ (/\ out.action = "action_answer_health_question"
               /\ out.calls = <<"medlineplus", "disease.sh/india">>) =>
                out.result = [Msg("covid_stats_india") EXCEPT !.a = Lines(all)]

\* C9: validate_gender gives male for 'male', 'man', 'boy', female for
\* 'female', 'woman', 'girl', other for 'other', 'transgender', 'trans' (case
\* and surrounding blanks aside), and rejects every other input: the slot is
\* None and the corrective prompt is uttered
C9_GenderSynonyms ==
    out.action = "validate_gender" =>
        LET word  == IF out.raw.k = "str" THEN Strip(Lower(out.raw.s)) ELSE ""
            class == IF word \in {"male", "man", "boy"} THEN "male"
                     ELSE IF word \in {"female", "woman", "girl"} THEN "female"
                     ELSE IF word \in {"other", "transgender", "trans"} THEN "other"
                     ELSE ""
        IN  IF class # ""
            THEN /\ out.events = <<SlotSet("gender", Str(class))>>
                 /\ out.messages = <<>>
            ELSE /\ out.events = <<SlotSet("gender", None)>>
                 /\ out.messages = <<Msg("gender_please_specify")>>

\* C10: validate_height on a numeric h: 1.0 <= h <= 2.5 sets the slot to h*100
\* centimetres, which is in range; otherwise 50 <= h <= 250 sets the slot to h;
\* otherwise the slot is None and a corrective prompt is uttered.  An input
\* that mentions feet, foot or ft is rejected with a corrective prompt.
\* (numbers in tenths; h*100 is the float product, a double at most one unit
\* in the last place from 100 h)
C10_HeightMetresAndRange ==
    out.action = "validate_height" =>
        LET raw == out.raw
            texts == [s \in {"1.7", "170", "1.0", "0.9", "2.5", "2.6", "50", "49.9",
                             "250", "250.1"} |->
                        CASE s = "1.7" -> 17 [] s = "170" -> 1700 [] s = "1.0" -> 10
                          [] s = "0.9" -> 9 [] s = "2.5" -> 25 [] s = "2.6" -> 26
                          [] s = "50" -> 500 [] s = "49.9" -> 499 [] s = "250" -> 2500
                          [] OTHER -> 2501]
            numeric == raw.k = "num" \/ (raw.k = "str" /\ raw.s \in DOMAIN texts)
            h == IF raw.k = "num" THEN raw.n ELSE texts[raw.s]
            prompted == \E i \in 1..Len(out.messages) :
                           out.messages[i].kind \in {"height_out_of_range",
                                                     "height_in_cm_please",
                                                     "height_not_a_number"}
            set(v) == out.events = <<SlotSet("height", v)>> /\ slots[out.session]["height"] = v
        IN  /\ numeric =>
                 IF 10 <= h /\ h <= 25
                 THEN /\ \E u \in -1..1 : set(Dbl(h * 100, u))
                      /\ 500 <= h * 100 /\ h * 100 <= 2500 /\ ~prompted
                 ELSE IF 500 <= h /\ h <= 2500
                 THEN set(Num(h)) /\ ~prompted
                 ELSE set(None) /\ prompted
            /\ raw \in {Str("5 feet"), Str("5ft"), Str("6 foot")} =>
                 set(None) /\ prompted

\* a numeric 1.7 read as metres and stored as 170 cm
C10_Witness ==
    /\ out.action = "validate_height"
    /\ out.raw = Num(17)
    /\ slots[out.session]["height"] = Num(1700)
    /\ out.messages = <<[Msg("height_converted") EXCEPT !.n = <<1700, 0>>]>>

\* C11: validate_weight sets the slot to the parsed weight w if and only if
\* 20 <= w <= 300 (300 accepted, 300.1 rejected) and a rejected value leaves
\* the slot None; validate_age does the same for 2 <= age <= 120.
\* (numbers in tenths; the parsed value of a plain decimal text is written out)
C11_WeightAgeRange ==
    out.action \in {"validate_weight", "validate_age"} =>
        LET raw   == out.raw
            texts == [s \in {"70", "70.5", "20", "19.9", "300", "300.1", "1.7", "170",
                             "1.0", "0.9", "2.5", "2.6", "50", "49.9", "250", "250.1",
                             "25", "17", "2", "1.9", "120", "120.1"} |->
                        CASE s = "70" -> 700 [] s = "70.5" -> 705 [] s = "20" -> 200
                          [] s = "19.9" -> 199 [] s = "300" -> 3000 [] s = "300.1" -> 3001
                          [] s = "1.7" -> 17 [] s = "170" -> 1700 [] s = "1.0" -> 10
                          [] s = "0.9" -> 9 [] s = "2.5" -> 25 [] s = "2.6" -> 26
                          [] s = "50" -> 500 [] s = "49.9" -> 499 [] s = "250" -> 2500
                          [] s = "250.1" -> 2501 [] s = "25" -> 250 [] s = "17" -> 170
                          [] s = "2" -> 20 [] s = "1.9" -> 19 [] s = "120" -> 1200
                          [] OTHER -> 1201]
            parsed == raw.k = "num" \/ (raw.k = "str" /\ raw.s \in DOMAIN texts)
            w      == IF raw.k = "num" THEN raw.n ELSE texts[raw.s]
            name   == IF out.action = "validate_weight" THEN "weight" ELSE "age"
            lo     == IF name = "weight" THEN 200 ELSE 20
            hi     == IF name = "weight" THEN 3000 ELSE 1200
            value  == slots[out.session][name]
        IN  /\ parsed => out.events = <<SlotSet(name, value)>>
            /\ parsed => (value = Num(w) <=> (lo <= w /\ w <= hi))
            /\ parsed /\ ~(lo <= w /\ w <= hi) =>
                 /\ value = None
                 /\ out.messages = <<Msg(name \o "_out_of_range")>>

\* the inclusive upper bound: the text 300 accepted as a weight
C11_Witness ==
    /\ out.action = "validate_weight"
    /\ out.raw = Str("300")
    /\ slots[out.session]["weight"] = Num(3000)

\* C12: an in-range number followed by a unit token of the field (weight: kg,
\* kgs, kilos; height: cm, centimeter, centimeters; age: year, years, yr,
\* yrs), in any letter case, is accepted and the slot is set to the number
C12_UnitTokensAccepted ==
    LET accepted(name, n) ==
            /\ out.events = <<SlotSet(name, Num(n))>>
            /\ slots[out.session][name] = Num(n)
            /\ out.messages = <<>>
    IN  /\ (/\ out.action = "validate_weight"
            /\ out.raw \in {Str("70kg"), Str("70 KG"), Str("70kgs"), Str("70 Kgs"),
                            Str("70 kilos"), Str("70KILOS")})
           => accepted("weight", 700)
        /\ (/\ out.action = "validate_height"
            /\ out.raw \in {Str("170cm"), Str("170 CM"), Str("170centimeters"),
                            Str("170 Centimeter")})
           => accepted("height", 1700)
        /\ (/\ out.action = "validate_age"
            /\ out.raw \in {Str("25 years"), Str("25year"), Str("25 yrs"), Str("25yr"),
                            Str("25 YRS")})
           => accepted("age", 250)

\* C13: the cleaning of a query is idempotent, cleaning the cleaned result a
\* second time changes nothing: for the cleaning at the head of
\* ActionAnswerHealthQuestion.run and for the cleaning at the head of
\* search_health_info
C13_NormalizeIdempotent ==
    /\ out.action = "action_answer_health_question" =>
         CleanQuestion(out.question) = out.question
    /\ (out.action = "action_fetch_disease_info" /\ out.path = "search") =>
         SearchQuery(out.question) = out.question

\* C14: when the query search_health_info has after its cleaning is shorter
\* than 3 characters, it returns None and no request is issued, neither to the
\* topic-summary endpoint nor to the COVID statistics endpoint
C14_ShortQueryNoRequest ==
    /\ (/\ out.action = "action_fetch_disease_info"
        /\ out.path = "search"
        /\ Len(out.question) < 3)
       => out.result = NoMsg /\ out.calls = <<>> /\ ~out.raised
    /\ (/\ out.action = "action_answer_health_question"
        /\ \E i \in 1..Len(out.consulted) : out.consulted[i] = "gateway"
        /\ Len(SearchQuery(out.question)) < 3)
       => out.result = NoMsg /\ out.calls = <<>> /\ ~out.raised

\* 'what is tb' leaves the two-letter query 'tb': nothing is requested
C14_Witness ==
    /\ out.action = "action_fetch_disease_info"
    /\ env.text = "what is tb"
    /\ env.med.outcome = "entry"
    /\ out.question = "tb"
    /\ out.calls = <<>>
    /\ out.messages = <<Msg("disease_info_resources")>>

\* C15: for valid slots ActionCalculateBMI displays height_m = height / 100,
\* the BMI weight / height_m^2 rounded to one decimal, and the ideal range
\* 18.5 * height_m^2 .. 24.9 * height_m^2, each bound rounded to one decimal;
\* weight 70 and height 170 give height_m 1.70, BMI 24.2, category Normal and
\* the range 53.5 .. 72.0.  (r is a / b rounded when it is a nearest integer;
\* weights in tenths of a kilogram, heights in millimetres)
C15_BMIAndIdealRange ==
    (out.action = "action_calculate_bmi" /\ out.path = "computed") =>
        LET w == out.before["weight"].n
            h == out.before["height"].n
            m == out.messages[1]
            Nearest(r, a, b) == \/ r = a \div b /\ 2 * (a % b) <= b
                                \/ r = (a \div b) + 1 /\ 2 * (a % b) >= b
            num   == w * 100000
            den   == h * h
        IN  /\ Len(out.messages) = 1
            /\ m.kind = "bmi_result"
            /\ m.n[2] = w /\ m.n[3] = h /\ m.n[4] = h
            /\ Nearest(m.n[5] - 10 * (num \div den), 10 * (num % den), den)
            /\ Nearest(m.n[6], 185 * h * h, 1000000)
            /\ Nearest(m.n[7], 249 * h * h, 1000000)
            /\ (w = 700 /\ h = 1700) =>
                 /\ m.n[5] = 242 /\ m.n[6] = 535 /\ m.n[7] = 720
                 /\ m.a[2] \in {"Normal (Healthy)", "Normal (Healthy Weight)"}

\* the example of the claim: 70 kg at 170 cm, an adult
C15_Witness ==
    /\ out.action = "action_calculate_bmi"
    /\ out.path = "computed"
    /\ out.before["weight"] = Num(700)
    /\ out.before["height"] = Num(1700)
    /\ out.before["age"] = Num(250)
    /\ out.messages[1].n = <<25, 700, 1700, 1700, 242, 535, 720, 0, 0>>
    /\ out.messages[1].a[2] = "Normal (Healthy Weight)"

\* C16: _get_bmi_category gives every (bmi, age) exactly one tier, decided on
\* the unrounded BMI: under 18 severely underweight (< 16), underweight
\* (< 18.5), normal (< 25), overweight (< 30), obese (>= 30); from 18 on the
\* same first four, then Obese Class I (< 35), Class II (< 40), Class III
\* (>= 40).  (bmi is the float run passes: the double weight / height_m ** 2)
C16_TierByAgeAndBMI ==
    (out.action = "action_calculate_bmi" /\ out.path = "computed") =>
        LET bmi  == Bmi(out.before["weight"], out.before["height"])
            age  == out.before["age"].n
            \* bmi < t / 2: by the exact quotient, and by the double's side of
            \* it where the quotient is t / 2
            Below(t) == IF 2 * bmi.num = t * bmi.den THEN BmiErr(bmi) < 0
                        ELSE 2 * bmi.num < t * bmi.den
            AtLeast(t) == ~Below(t)
            minor == age < 180
            tier == out.messages[1].a[2]
            tiers == {"Severely Underweight", "Underweight", "Normal (Healthy)",
                      "Normal (Healthy Weight)", "Overweight", "Overweight (Pre-Obese)",
                      "Obese", "Obese Class I", "Obese Class II",
                      "Obese Class III (Morbidly Obese)"}
        IN  /\ tier \in tiers
            /\ tier = "Severely Underweight" <=> Below(32)
            /\ tier = "Underweight" <=> (AtLeast(32) /\ Below(37))
            /\ tier = "Normal (Healthy)" <=> (minor /\ AtLeast(37) /\ Below(50))
            /\ tier = "Normal (Healthy Weight)" <=> (~minor /\ AtLeast(37) /\ Below(50))
            /\ tier = "Overweight" <=> (minor /\ AtLeast(50) /\ Below(60))
            /\ tier = "Overweight (Pre-Obese)" <=> (~minor /\ AtLeast(50) /\ Below(60))
            /\ tier = "Obese" <=> (minor /\ AtLeast(60))
            /\ tier = "Obese Class I" <=> (~minor /\ AtLeast(60) /\ Below(70))
            /\ tier = "Obese Class II" <=> (~minor /\ AtLeast(70) /\ Below(80))
            /\ tier = "Obese Class III (Morbidly Obese)" <=> (~minor /\ AtLeast(80))

\* 99.9 kg at 200 cm: the BMI 24.975 is displayed as 25.0 and the tier is
\* normal, as the unrounded value decides
C16_Witness ==
    /\ out.action = "action_calculate_bmi"
    /\ out.path = "computed"
    /\ out.before["weight"] = Num(999)
    /\ out.before["height"] = Num(2000)
    /\ out.before["age"] = Num(180)
    /\ out.messages[1].n[5] = 250
    /\ out.messages[1].a[2] = "Normal (Healthy Weight)"

\* C17: when the cleaned question contains a quick topic (water, sleep,
\* exercise, diet), ActionAnswerHealthQuestion.run utters that topic's answer
\* and returns: search_health_info is not called, the knowledge base is not
\* consulted, no request is issued
C17_QuickTopicNoRequest ==
    (/\ out.action = "action_answer_health_question"
     /\ \E t \in {"water", "sleep", "exercise", "diet"} : Contains(out.question, t))
    => /\ out.calls = <<>>
       /\ out.consulted = <<"quick">>
       /\ ~out.raised
       /\ Len(out.messages) = 1
       /\ out.messages[1].kind = "quick_topic"
       /\ \E t \in {"water", "sleep", "exercise", "diet"} :
             Contains(out.question, t) /\ out.messages[1].a = <<t>>

\* a sleep question while the topic-summary endpoint would have answered
C17_Witness ==
    /\ out.action = "action_answer_health_question"
    /\ env.text = "what is sleep info"
    /\ env.med.outcome = "entry" /\ env.med.title = "Dengue" /\ env.med.summaryLen = 500
    /\ out.question = "sleep"
    /\ out.calls = <<>>
    /\ out.messages = <<[Msg("quick_topic") EXCEPT !.a = <<"sleep">>]>>

\* C18: for a raw slot value of any kind each BMI validator returns normally:
\* it returns the accepted value for its slot, or None for its slot together
\* with a corrective prompt; it never raises
C18_ValidatorsNeverRaise ==
    out.action \in {"validate_weight", "validate_height", "validate_age",
                    "validate_gender"} =>
        /\ ~out.raised
        /\ Len(out.events) = 1
        /\ \/ out.events[1].value # None
           \/ \E i \in 1..Len(out.messages) :
                 out.messages[i].kind \in
                   {"weight_not_a_number", "weight_out_of_range",
                    "height_in_cm_please", "height_not_a_number", "height_out_of_range",
                    "age_not_a_number", "age_out_of_range", "gender_please_specify"}

\* C19: ActionCalculateBMI renders a BMI result only when the four slots are
\* present and valid: weight in [20, 300], height in [50, 250] centimetres,
\* age in [2, 120], gender one of male, female, other
C19_ResultOnlyFromValidSlots ==
    (/\ out.action = "action_calculate_bmi"
     /\ \E i \in 1..Len(out.messages) : out.messages[i].kind = "bmi_result")
    => LET weight == out.before["weight"]
           height == out.before["height"]
           age    == out.before["age"]
           gender == out.before["gender"]
       IN  /\ weight.k = "num" /\ 200 <= weight.n /\ weight.n <= 3000
           /\ height.k = "num" /\ 500 <= height.n /\ height.n <= 2500
           /\ age.k = "num" /\ 20 <= age.n /\ age.n <= 1200
           /\ gender \in {Str("male"), Str("female"), Str("other")}

\* C20: every run of ActionSubmitCheckup, whatever the four check-up slots hold
\* (null, non-numeric, out of range), ends with one summary message and the
\* clearing of temperature, mood_level, pain_score and symptom_name together:
\* never some of the four cleared and others left set
C20_SubmitCheckupClearsAll ==
    out.action = "action_submit_checkup"
    => /\ ~out.raised
       /\ Len(out.messages) = 1
       /\ out.messages[1].kind = "checkup_summary"
       /\ \A name \in CheckupSlotNames :
             /\ \E i \in 1..Len(out.events) : out.events[i] = SlotSet(name, None)
             /\ slots[out.session][name] = None

\* a run on a null temperature, a pain score that is not a number and an empty
\* symptom, with the mood still set
C20_Witness ==
    /\ out.action = "action_submit_checkup"
    /\ out.before["temperature"] = None
    /\ out.before["pain_score"] = Str("abc")
    /\ out.before["mood_level"] = Str("sad")
    /\ out.before["symptom_name"] = Str("")
    /\ out.messages[1].a = <<"Mental health matters">>
    /\ \A name \in CheckupSlotNames : slots[out.session][name] = None

\* C21: when none of the five condition rules reaches its threshold for the
\* detected symptoms, the triage output holds the generic 'General illness'
\* hypothesis exactly once; and the triage output is never empty
C21_GenericWhenNoRuleFires ==
    out.action = "_analyze_symptoms"
    => /\ out.returned # <<>>
       /\ (\A i \in 1..Len(ConditionRules) : ~RuleFires(ConditionRules[i], env.symptoms))
          => Cardinality({j \in 1..Len(out.returned) :
                            out.returned[j] = "General illness"}) = 1

\* C22: inside search_health_info the two requests are isolated: when the query
\* mentions 'covid' or 'coronavirus' and the topic-summary request fails in any
\* way (exception, status other than 200, unreadable payload, no entry, entry
\* rejected), the statistics endpoint is still queried, and a statistics answer
\* of status 200 carrying the five counts is what the gateway returns
C22_EndpointsIsolated ==
    (/\ out.action = "action_answer_health_question"
     /\ \E i \in 1..Len(out.consulted) : out.consulted[i] = "gateway"
     /\ MentionsCovid(SearchQuery(out.question))
     /\ \/ env.med.outcome # "entry"
        \/ env.med.title = ""
        \/ env.med.summaryLen <= 80)
    => /\ ~out.raised
       /\ out.calls = <<"medlineplus", "disease.sh/india">>
       /\ (env.stats.outcome = "ok" /\ DOMAIN env.stats.data = SetOf(StatsFields))
          => /\ out.result = [Msg("covid_stats_india") EXCEPT
                                !.a = <<"45,035,393", "0", "999", "533,570", "1,000">>]
             /\ out.messages = <<out.result>>

\* the topic-summary request raises, the statistics endpoint answers in full,
\* and the COVID statistics are what the user gets
C22_Witness ==
    /\ out.action = "action_answer_health_question"
    /\ env.text = "what is covid"
    /\ env.med.outcome = "exception"
    /\ env.stats.outcome = "ok"
    /\ DOMAIN env.stats.data = SetOf(StatsFields)
    /\ out.calls = <<"medlineplus", "disease.sh/india">>
    /\ out.messages[1].kind = "covid_stats_india"

\* C23: a request of search_health_info to the topic-summary endpoint yields a
\* topic-summary result if and only if the first feed entry has a non-empty
\* title and a summary of more than 80 characters (80 exactly is rejected); the
\* summary shown is the whole summary when it has at most 500 characters and
\* otherwise its first 500 characters followed by '...'
C23_SummaryAcceptedAndTruncated ==
    (/\ out.action = "action_answer_health_question"
     /\ out.calls # <<>>)
    => LET accepted == /\ env.med.outcome = "entry"
                       /\ env.med.title # ""
                       /\ env.med.summaryLen > 80
       IN  /\ (out.result.kind = "medline") <=> accepted
           /\ accepted =>
                /\ out.result.a[1] = env.med.title
                /\ out.result.n = IF env.med.summaryLen <= 500
                                  THEN <<env.med.summaryLen, 0>>
                                  ELSE <<500, 3>>

\* a summary of 501 characters is cut to 500 and the ellipsis
C23_Witness ==
    /\ out.action = "action_answer_health_question"
    /\ env.med.outcome = "entry"
    /\ env.med.summaryLen = 501
    /\ out.result.kind = "medline"
    /\ out.result.n = <<500, 3>>
    /\ out.messages = <<out.result>>

\* C24: for every interleaving of BMI validations and computations of two
\* sessions, a step taken for one session leaves the other session's slots as
\* they were, reads and writes only its own session's slots, and what it
\* utters is made of the values its own user typed: nothing set in one session
\* is read in the other and no action keeps a value between invocations
C24_SessionsIndependent ==
    [][LET s     == out'.session
           other == CHOOSE t \in TwoSessions : t # s
           own   == [weight |-> IF s = "s1" THEN Num(700) ELSE Num(950),
                     height |-> IF s = "s1" THEN Num(1700) ELSE Num(1800),
                     age    |-> IF s = "s1" THEN Num(250) ELSE Num(160),
                     gender |-> IF s = "s1" THEN Str("female") ELSE Str("male")]
       IN  /\ s \in TwoSessions
           /\ slots'[other] = slots[other]
           /\ \A name \in SlotNames : slots'[s][name] \in {None, own[name]}
           /\ out'.action = "action_calculate_bmi" =>
                /\ out'.before = slots[s]
                /\ slots'[s] = NoSlots
                /\ \A i \in 1..Len(out'.messages) :
                      out'.messages[i].kind = "bmi_result" =>
                        /\ \A name \in SlotNames : slots[s][name] = own[name]
                        /\ out'.messages[i].n[2] = own.weight.n
                        /\ out'.messages[i].n[3] = own.height.n
                        /\ out'.messages[i].n[1] = own.age.n \div 10
                        /\ out'.messages[i].a[1] = (IF s = "s1" THEN "Female" ELSE "Male")
           /\ out'.action # "action_calculate_bmi" =>
                /\ Len(out'.events) = 1
                /\ out'.raw = SessionInputs[s][out'.events[1].slot]
                /\ slots'[s] = [slots[s] EXCEPT ![out'.events[1].slot] =
                                                   own[out'.events[1].slot]]
      ]_vars

\* the second session's result is computed while the first session's form is
\* completely filled, and the first session's slots stay filled
C24_Witness ==
    /\ out.action = "action_calculate_bmi"
    /\ out.session = "s2"
    /\ \E i \in 1..Len(out.messages) : out.messages[i].kind = "bmi_result"
    /\ slots["s2"] = NoSlots
    /\ slots["s1"]["weight"] = Num(700)
    /\ slots["s1"]["height"] = Num(1700)
    /\ slots["s1"]["age"] = Num(250)
    /\ slots["s1"]["gender"] = Str("female")

\* C25: every run of ActionAnswerHealthQuestion.run utters exactly one message
\* (the quick-topic answer, the gateway's result, one knowledge-base entry or
\* the generic fallback), returns no slot update and changes no slot
C25_OneAnswerNoSlotChange ==
    out.action = "action_answer_health_question"
    => /\ ~out.raised
       /\ Len(out.messages) = 1
       /\ out.messages[1].kind \in {"quick_topic", "medline", "covid_stats_india",
                                    "kb_entry", "qa_fallback"}
       /\ out.events = <<>>
       /\ \A s \in Sessions : slots[s] = NoSlots

\* a quick topic in a question whose topic-summary request would have been
\* answered: the quick answer alone is uttered
C25_Witness ==
    /\ out.action = "action_answer_health_question"
    /\ env.text = "how much water should i drink"
    /\ env.med.outcome = "entry" /\ env.med.title = "Dengue" /\ env.med.summaryLen = 81
    /\ out.messages = <<[Msg("quick_topic") EXCEPT !.a = <<"water">>]>>
    /\ out.events = <<>>

\* C26: a knowledge-base entry is uttered only for a usable topic key: when the
\* cleaned question is empty or shorter than 3 characters (the utterance
\* 'what is ' cleans to the empty string), the lookup finds nothing and the
\* generic fallback is uttered
C26_ShortQuestionFallsBack ==
    (/\ out.action = "action_answer_health_question"
     /\ Len(out.question) < 3)
    => out.messages = <<Msg("qa_fallback")>>

\* C27: ActionRespondSymptom answers for exactly one symptom: the first entry,
\* in the declaration order of its table, with a keyword occurring in the
\* message, 'general' when there is none.  So the chest-pain EMERGENCY advice is
\* uttered only when no keyword of knee pain, leg pain, joint pain, migraine or
\* headache occurs in the message, and the breathlessness EMERGENCY advice only
\* when no keyword of any other listed symptom occurs
C27_FirstDeclaredSymptomAnswered ==
    out.action = "action_respond_symptom"
    => LET message  == Lower(env.text)
           Occurs(i) == ContainsAny(message, SymptomTable[i].keywords)
           advised  == out.messages[1].kind = "symptom_advice"
       IN  /\ Len(out.messages) = 1
           /\ out.events = <<>>
           /\ \A i \in 1..Len(SymptomTable) :
                 (Occurs(i) /\ \A j \in 1..(i - 1) : ~Occurs(j))
                 => /\ out.question = SymptomTable[i].symptom
                    /\ out.messages[1].a \in {<<SymptomTable[i].symptom>>,
                                              <<Title(SymptomTable[i].symptom)>>}
           /\ (\A i \in 1..Len(SymptomTable) : ~Occurs(i))
              => out.messages[1] = [Msg("symptom_general") EXCEPT !.a = <<"General">>]
           /\ (advised /\ out.messages[1].a = <<"chest pain">>)
              => ~ContainsAny(message,
                     <<"knee pain", "knees hurt", "knee hurting", "pain in knee",
                       "my knee", "knee ache", "leg pain", "legs hurt", "leg hurting",
                       "pain in leg", "my leg", "leg ache", "joint pain", "joints hurt",
                       "joint ache", "migraine", "headache", "head pain", "head ache">>)
           /\ (advised /\ out.messages[1].a = <<"breathlessness">>)
              => \A i \in 1..(Len(SymptomTable) - 1) : ~Occurs(i)

\* chest pain named before a headache: the headache advice is what is uttered
C27_Witness ==
    /\ out.action = "action_respond_symptom"
    /\ env.text = "I have Chest Pain and head pain"
    /\ out.messages = <<[Msg("symptom_advice") EXCEPT !.a = <<"headache">>]>>

\* C28: in the check-up summary every numeric temperature of 103 or more gets
\* the 'HIGH FEVER' recommendation, and a numeric temperature above 100.4 and
\* below 103 gets the ordinary 'Fever detected' recommendation
C28_HighFeverFrom103 ==
    (/\ out.action = "action_submit_checkup"
     /\ out.before["temperature"].k = "num")
    => LET temp == out.before["temperature"].n
           recs == SetOf(out.messages[1].a)
       IN  /\ temp >= 1030 => "HIGH FEVER" \in recs
           /\ (temp > 1004 /\ temp < 1030) => "Fever detected" \in recs

\* C29: the BMI result is self-consistent for every valid weight and height:
\* the maintenance guidance ('Your weight is HEALTHY') and the Normal category
\* are shown if and only if the weight lies within the displayed ideal weight
\* range [ideal_min, ideal_max]; and a displayed gain or loss target is never
\* negative
C29_ResultSelfConsistent ==
    (/\ out.action = "action_calculate_bmi"
     /\ Len(out.messages) = 1
     /\ out.messages[1].kind = "bmi_result")
    => LET m       == out.messages[1]
           healthy == m.a[5] = "healthy"
           normal  == m.a[2] \in {"Normal (Healthy)", "Normal (Healthy Weight)"}
           inRange == m.n[6] <= m.n[2] /\ m.n[2] <= m.n[7]
       IN  /\ (healthy /\ normal) <=> inRange
           /\ m.a[5] \in {"gain", "lose"} => m.n[8] >= 0

\* C30: within one question-answering turn the topic key is the same for every
\* source: the key search_health_info sends to the topic-summary endpoint,
\* after its own cleaning of the already cleaned question, equals the cleaned
\* question used for the quick-topic test and the knowledge-base lookup
C30_SameKeyForEverySource ==
    (/\ out.action = "action_answer_health_question"
     /\ out.calls # <<>>)
    => SearchQuery(out.question) = out.question

=============================================================================
